---- MODULE Spec2Model ----
(***************************************************************************)
(* Model of the domain reconnaissance service (g00dvin/gekata).            *)
(*                                                                         *)
(* The repository holds several variants of server.js.  Two are modelled:  *)
(*   - the hardened variant, src/unnamed/part_003 (Semaphore, abort        *)
(*     signal, de-duplicated redirect log): specification Spec;            *)
(*   - the orchestrator variant, src/unnamed/part_002 (precheck,           *)
(*     scanWithBrowser, redirect limiter): added further below.            *)
(*                                                                         *)
(* JavaScript runs handlers to completion between awaits, so every action  *)
(* below is one run of a handler from one suspension point to the next.    *)
(***************************************************************************)
EXTENDS Integers, Sequences, FiniteSets, TLC

\* ------------------------------------------------------------------------
\* Configuration and bounds
\* ------------------------------------------------------------------------

\* part_003:13, parseInt(process.env.CONCURRENCY || '3'): run with CONCURRENCY=2
CONCURRENCY == 2

\* number of /domains requests that arrive
NumRequests == 3

Requests == 1..NumRequests

\* normalised hostnames the requests ask for
Domains == {"d1"}

VARIABLES
    semActive,   \* Semaphore.active
    semQueue,    \* Semaphore.queue: the queued tryAcquire closures, by request
    pc,          \* position of each request's handler
    dom,         \* norm of each request ("" before it arrived)
    released,    \* how often the release function of a request was called
    aborted,     \* ac.signal.aborted of each request
    resp,        \* HTTP status written for each request (0: none yet)
    browser,     \* the module-level `let browser` (0: undefined / null)
    browsers,    \* each browser, by launch number: none (not launched yet),
                 \* connected, gone (disconnected or closed)
    launched,    \* number of chromium.launch() calls that resolved
    b,           \* the local `const b` of each scanDomainOnce (0: not yet)
    closing,     \* the browser whose close() a request is awaiting (0: none)
    ctx,         \* the browsing context of each scan: open, or none (not
                 \* created yet, closed, or lost with its browser)
    cacheLive,   \* domains with a live row in domain_cache
    \* --- the result cache (specification SpecCache) ---
    rows,        \* table domain_cache: domain -> row
    now,         \* Math.floor(Date.now() / 1000)
    lastPut,     \* per domain, the result of the latest putToCache and its time
    lookup,      \* domain and outcome of the latest getFromCache
    \* --- one browser scan (specifications SpecScanH, SpecScanO) ---
    sPc,         \* position of the scan
    origin,      \* originDomain
    seenDomains, \* the Set seenDomains
    droppedDomains,
    redirectLog, \* the array redirectLog
    seenPairs,   \* the Set seenPairs of "from|to" keys (hardened variant)
    inflight,    \* the counter of open requests
    sinceChange, \* Date.now() - lastNetChange, in ms, capped at QUIET_WINDOW_MS
    waited,      \* Date.now() - startWait, in ms, capped at NAV_TIMEOUT_MS
    chUrls,      \* per request chain, the urls requested so far: request i + 1
                 \* is the redirect of request i (redirectedFrom)
    chAnswered,  \* per request chain, the number of responses delivered
    chNext,      \* per request chain, the Location of its last 3xx response
                 \* while the redirected request has not been issued
    sAborted,    \* signal.aborted
    scanResult,  \* what the scan returned
    \* --- the orchestrator around the scan (specification SpecScanO) ---
    pre,         \* what precheckFollowManually returned
    targetUrl,   \* the url scanWithBrowser navigates to
    finalUrl,    \* page.url() as read after the quiet window
    docStatus,   \* status of the latest document response (0: none)
    response,    \* what the handler has sent to the client
    writes,      \* the bodies passed to res.status().json(), in call order
    \* --- the route handler of the context (specification SpecRoute) ---
    routeReq,    \* per intercepted route, route.request()
    routePc,     \* per route, the position of its handler
    routeCalls,  \* per route, the calls made on it, in order
    \* --- precheckFollowManually (specification SpecPrecheck) ---
    pPc,          \* position: "idle", the awaits "fetch" and "probe", "done"
    pUrl,         \* url
    pI,           \* i, the loop counter
    pVisited,     \* visited
    pSawHtmlHint, \* sawHtmlHint
    pNextUrl,     \* next, while the probe is awaited
    pResult,      \* what the function returned
    pFetched,     \* the hops the walk fetched: url and what the answer said
    pProbes,      \* the probe fetches issued since the latest walk fetch
    \* --- the network of the scanned page ---
    chFailed,    \* per request chain, whether its last request failed
                 \* ('requestfailed' instead of 'response')
    chStatus,    \* per request chain of the hardened scan, the status codes
                 \* of the responses received, in the order of the requests
    \* --- the callers of the Semaphore (specification SpecSem) ---
    semCaller,   \* per caller: "idle", "queued", "acquired" or "done"
    semQueued,   \* the callers whose tryAcquire was queued, in that order
    semAdmitted  \* the queued callers whose acquire() resolved, in that order

\* the state of the hardened server
serverVars == <<semActive, semQueue, pc, dom, released, aborted, resp,
                browser, browsers, launched, b, closing, ctx, cacheLive>>

\* the state of the result cache
cacheVars == <<rows, now, lastPut, lookup>>

\* the state of one scan
scanVars == <<sPc, origin, seenDomains, droppedDomains, redirectLog, seenPairs,
              inflight, sinceChange, waited, chUrls, chAnswered, chNext,
              sAborted, scanResult>>

\* the state of the orchestrator around one scan
orchVars == <<pre, targetUrl, finalUrl, docStatus, response, writes>>

\* the state of the route handlers
routeVars == <<routeReq, routePc, routeCalls>>

\* the state of one precheck walk
precheckVars == <<pPc, pUrl, pI, pVisited, pSawHtmlHint, pNextUrl, pResult,
                  pFetched, pProbes>>

\* the state of the parts modelled on their own
\* the order of the callers of the semaphore
semOrderVars == <<semCaller, semQueued, semAdmitted>>

sideVars == <<routeVars, precheckVars, chFailed, chStatus, semOrderVars>>

vars == <<serverVars, cacheVars, scanVars, orchVars, routeVars, precheckVars,
          chFailed, chStatus, semOrderVars>>

notServerVars == <<cacheVars, scanVars, orchVars, sideVars>>
notCacheVars == <<serverVars, scanVars, orchVars, sideVars>>
notScanVars == <<serverVars, cacheVars, orchVars, sideVars>>
notRouteVars == <<serverVars, cacheVars, scanVars, orchVars, precheckVars,
                  chFailed, chStatus, semOrderVars>>
notPrecheckVars == <<serverVars, cacheVars, scanVars, orchVars, routeVars,
                     chFailed, chStatus, semOrderVars>>

semVars == <<semActive, semQueue>>
browserVars == <<browser, browsers, launched>>

\* handler positions at which the request holds a permit: acquire() has
\* resolved and the release function has not been called
HoldingPcs == {"acquired", "eb_closing", "eb_launching", "newctx", "newpage",
               "goto", "settle", "closing", "catch_close", "catch_bclose"}

\* positions inside scanDomainOnce
ScanPcs == HoldingPcs \ {"acquired"}

Holders == {r \in Requests : pc[r] \in HoldingPcs}

Scanning == {r \in Requests : pc[r] \in ScanPcs}

LiveBrowsers == {n \in 1..NumRequests : browsers[n] = "connected"}

IsConnected(n) == n # 0 /\ browsers[n] = "connected"

ServerInit ==
    /\ semActive = 0
    /\ semQueue = <<>>
    /\ pc = [r \in Requests |-> "idle"]
    /\ dom = [r \in Requests |-> ""]
    /\ released = [r \in Requests |-> 0]
    /\ aborted = [r \in Requests |-> FALSE]
    /\ resp = [r \in Requests |-> 0]
    /\ browser = 0
    /\ browsers = [n \in 1..NumRequests |-> "none"]
    /\ launched = 0
    /\ b = [r \in Requests |-> 0]
    /\ closing = [r \in Requests |-> 0]
    /\ ctx = [r \in Requests |-> "none"]
    /\ cacheLive = {}

\* ------------------------------------------------------------------------
\* Hostnames and urls.  A hostname is the sequence of its UTF-16 code units,
\* so that sort() and includes() can be modelled by what they compute.
\* ------------------------------------------------------------------------

\* "a.com"
HostA == <<97, 46, 99, 111, 109>>
\* "b.com"
HostB == <<98, 46, 99, 111, 109>>
\* "z.com"
HostZ == <<122, 46, 99, 111, 109>>
\* "google.com"
HostGoogle == <<103, 111, 111, 103, 108, 101, 46, 99, 111, 109>>
\* "ad.doubleclick.net"
HostAds == <<97, 100, 46, 100, 111, 117, 98, 108, 101, 99, 108, 105, 99, 107,
             46, 110, 101, 116>>
\* "google"
StrGoogle == <<103, 111, 111, 103, 108, 101>>
\* "doubleclick"
StrDoubleclick == <<100, 111, 117, 98, 108, 101, 99, 108, 105, 99, 107>>

\* the url https://<h><p>
Url(h, p) == [host |-> h, path |-> p]

\* the empty string where a url is expected, and "no url"
NoUrl == [host |-> <<>>, path |-> ""]

\* about:blank, the url of a page that has not committed a document
AboutBlank == [host |-> <<>>, path |-> "about:blank"]

\* ------------------------------------------------------------------------
\* The result cache: putToCache / getFromCache (part_002:352-390) over the
\* table domain_cache and stmtUpsert (part_002:40-62)
\* ------------------------------------------------------------------------

\* part_002:11, parseInt(process.env.CACHE_TTL_SECONDS || '21600'): run with
\* CACHE_TTL_SECONDS=2
CACHE_TTL_SECONDS == 2

\* the clock runs from 0 to MaxTime
MaxTime == 4

CacheDomains == {HostA, HostB}

\* scan results as scanWithBrowser returns them: finalUrl is page.url(),
\* never empty
CacheResults ==
    { [finalUrl |-> Url(HostA, "/"), relatedDomains |-> <<HostA>>,
       redirectChain |-> <<>>],
      [finalUrl |-> Url(HostB, "/"), relatedDomains |-> <<HostA, HostB>>,
       redirectChain |-> <<[from |-> Url(HostA, "/"), to |-> Url(HostB, "/"),
                            status |-> 301]>>],
      [finalUrl |-> Url(HostZ, "/x"), relatedDomains |-> <<>>,
       redirectChain |-> <<[from |-> Url(HostA, "/"), to |-> Url(HostB, "/"),
                            status |-> 302],
                           [from |-> Url(HostB, "/"), to |-> Url(HostZ, "/x"),
                            status |-> 307]>>] }

\* SQL NULL / JavaScript null in a text column or a url field
Null == [host |-> <<>>, path |-> "<null>"]

\* JSON text, as the sequence of its tokens
Tok(k, str, num) == [k |-> k, str |-> str, num |-> num]
StrTok(x) == Tok("str", x, 0)
NumTok(n) == Tok("num", "", n)
Punct(c) == Tok(c, "", 0)

RECURSIVE JoinTokens(_)
\* the token sequences `parts`, separated by commas
JoinTokens(parts) ==
    IF parts = <<>> THEN <<>>
    ELSE IF Len(parts) = 1 THEN parts[1]
    ELSE parts[1] \o <<Punct(",")>> \o JoinTokens(Tail(parts))

\* JSON.stringify of one {from, to, status} (keys in insertion order)
StringifyStep(p) ==
    << Punct("{"), StrTok("from"), Punct(":"), StrTok(p.from), Punct(","),
       StrTok("to"), Punct(":"), StrTok(p.to), Punct(","),
       StrTok("status"), Punct(":"), NumTok(p.status), Punct("}") >>

\* JSON.stringify of an array of strings (part_002:380)
StringifyStrings(a) ==
    <<Punct("[")>> \o JoinTokens([i \in 1..Len(a) |-> <<StrTok(a[i])>>])
                   \o <<Punct("]")>>

\* JSON.stringify of an array of redirect steps (part_002:382)
StringifyChain(c) ==
    <<Punct("[")>> \o JoinTokens([i \in 1..Len(c) |-> StringifyStep(c[i])])
                   \o <<Punct("]")>>

ParseError == [ok |-> FALSE, val |-> <<>>, next |-> 0]

RECURSIVE ParseMembers(_, _, _)
\* the members of a JSON object from token i on, added to the record acc;
\* the values are strings or numbers
ParseMembers(toks, i, acc) ==
    IF i + 3 > Len(toks) \/ toks[i].k # "str" \/ toks[i + 1].k # ":"
           \/ toks[i + 2].k \notin {"str", "num"}
        THEN ParseError
    ELSE LET val == IF toks[i + 2].k = "str" THEN toks[i + 2].str
                                             ELSE toks[i + 2].num
             rec == (toks[i].str :> val) @@ acc
         IN  IF toks[i + 3].k = "}" THEN [ok |-> TRUE, val |-> rec, next |-> i + 4]
             ELSE IF toks[i + 3].k = "," THEN ParseMembers(toks, i + 4, rec)
             ELSE ParseError

\* one array element from token i on: a string or an object
ParseElement(toks, i) ==
    IF i > Len(toks) THEN ParseError
    ELSE IF toks[i].k = "str"
        THEN [ok |-> TRUE, val |-> toks[i].str, next |-> i + 1]
    ELSE IF toks[i].k = "{" THEN ParseMembers(toks, i + 1, <<>>)
    ELSE ParseError

RECURSIVE ParseElements(_, _, _)
\* the elements of a JSON array from token i on, appended to acc
ParseElements(toks, i, acc) ==
    LET e == ParseElement(toks, i)
    IN  IF ~e.ok \/ e.next > Len(toks) THEN ParseError
        ELSE IF toks[e.next].k = "]"
            THEN IF e.next = Len(toks)
                     THEN [ok |-> TRUE, val |-> Append(acc, e.val), next |-> e.next + 1]
                     ELSE ParseError
        ELSE IF toks[e.next].k = ","
            THEN ParseElements(toks, e.next + 1, Append(acc, e.val))
        ELSE ParseError

\* JSON.parse of a column that holds an array (part_002:359, 361): the
\* array as a sequence, or a SyntaxError
JsonParse(toks) ==
    IF Len(toks) < 2 \/ toks[1].k # "[" THEN ParseError
    ELSE IF toks[2].k = "]"
        THEN IF Len(toks) = 2 THEN [ok |-> TRUE, val |-> <<>>, next |-> 3]
                              ELSE ParseError
    ELSE ParseElements(toks, 2, <<>>)

\* `x || null` (part_002:360, 381)
OrNull(x) == IF x = NoUrl \/ x = Null THEN Null ELSE x

\* getFromCache comparing with `>=`: a row is served in the second it expires
IsLiveInclusive(row, t) == row.ttl_at >= t

\* a row is live (part_002:356)
IsLive(row, t) == row.ttl_at > t

Miss == [hit |-> FALSE]

\* getFromCache(d) at time t (part_002:352-373): null, or the cached result
GetFromCache(tbl, t, d) ==
    IF d \notin DOMAIN tbl THEN Miss
    ELSE LET row == tbl[d]
             rd == JsonParse(row.result_json)
             rc == IF row.redirect_chain_json # <<>>
                       THEN JsonParse(row.redirect_chain_json)
                       ELSE [ok |-> TRUE, val |-> <<>>, next |-> 0]
         IN  IF ~IsLive(row, t) THEN Miss
             ELSE IF ~rd.ok \/ ~rc.ok THEN Miss
             ELSE [hit |-> TRUE,
                   relatedDomains |-> rd.val,
                   finalUrl |-> OrNull(row.final_url),
                   redirectChain |-> rc.val,
                   cached |-> TRUE,
                   cachedAt |-> row.updated_at,
                   ttlAt |-> row.ttl_at]

\* the row putToCache(d, result) writes at time t (part_002:374-385)
NewRow(t, res) ==
    [result_json |-> StringifyStrings(res.relatedDomains),
     final_url |-> OrNull(res.finalUrl),
     redirect_chain_json |-> StringifyChain(res.redirectChain),
     updated_at |-> t,
     ttl_at |-> t + CACHE_TTL_SECONDS]

\* stmtUpsert (part_002:53-62): insert the row, or on a conflict on the
\* primary key replace every column of the existing row
Upsert(tbl, d, row) ==
    [x \in DOMAIN tbl \cup {d} |-> IF x = d THEN row ELSE tbl[x]]

CacheInit ==
    /\ rows = <<>>
    /\ now = 0
    /\ lastPut = <<>>
    /\ lookup = [domain |-> <<>>, out |-> Miss]

\* what putToCache(d, result) does to the table (part_002:374-390)
PutRow(d, res) ==
    /\ rows' = Upsert(rows, d, NewRow(now, res))
    /\ lastPut' = Upsert(lastPut, d, [result |-> res, at |-> now])
    /\ UNCHANGED <<now, lookup>>

\* putToCache(d, result)
PutToCache(d, res) ==
    /\ PutRow(d, res)
    /\ UNCHANGED notCacheVars

\* getFromCache(d)
Lookup(d) ==
    /\ lookup' = [domain |-> d, out |-> GetFromCache(rows, now, d)]
    /\ UNCHANGED <<rows, now, lastPut>>
    /\ UNCHANGED notCacheVars

\* a second passes
Tick ==
    /\ now < MaxTime
    /\ now' = now + 1
    /\ UNCHANGED <<rows, lastPut, lookup>>
    /\ UNCHANGED notCacheVars

\* ------------------------------------------------------------------------
\* One browser scan: what both variants share
\* ------------------------------------------------------------------------

\* extractDomain (part_003:65-67, part_002:78-80): the hostname of the url,
\* lower-cased; <<>> stands for a url without one (`if (d)` is then false)
ExtractDomain(u) == u.host

\* the request chains of a scan: the main-frame navigation and one
\* subresource
ChainIds == {"doc", "sub"}

ResourceType(c) == IF c = "doc" THEN "document" ELSE "image"

\* a request chain follows at most MaxHops redirects
MaxHops == 4

\* status codes of redirect responses
RedirectStatuses == {302}

\* status codes of redirect responses where hops differ in their status
RedirectStatusesH == {301, 302}

\* the last request of chain c is waiting for its response
Unanswered(c) == chAnswered[c] < Len(chUrls[c]) /\ ~chFailed[c]

\* the main-frame document has been received (its last response was no
\* redirect): domcontentloaded can fire
DocLoaded ==
    /\ Len(chUrls["doc"]) > 0
    /\ ~Unanswered("doc")
    /\ ~chFailed["doc"]
    /\ chNext["doc"] = NoUrl

\* page.url()
PageUrl == IF DocLoaded THEN chUrls["doc"][Len(chUrls["doc"])] ELSE AboutBlank

\* positions at which the page exists, the handlers are attached and the
\* context is not closed yet: request and response events are delivered
LivePcs == {"goto", "settle", "closing"}

RECURSIVE Reverse(_)
\* Array.prototype.reverse
Reverse(q) == IF q = <<>> THEN <<>> ELSE Append(Reverse(Tail(q)), Head(q))

RECURSIVE WalkRedirectedFrom(_, _, _, _, _, _)
\* the while loop of buildRedirectChainForResponse (part_003:177-182,
\* part_002:172-177): prev is the index of the request redirectedFrom()
\* returned (0: null)
WalkRedirectedFrom(urls, prev, toUrl, status, chain, maxLen) ==
    IF prev = 0 THEN chain
    ELSE LET pushed == Append(chain, [from |-> urls[prev], to |-> toUrl,
                                      status |-> status])
         IN  IF Len(pushed) >= maxLen THEN pushed
             ELSE WalkRedirectedFrom(urls, prev - 1, urls[prev], status,
                                     pushed, maxLen)

\* buildRedirectChainForResponse for the response with `status` to request
\* i of a chain with the given urls (part_003:171-184, part_002:164-179)
BuildRedirectChainForResponse(urls, i, status, maxLen) ==
    Reverse(WalkRedirectedFrom(urls, i - 1, urls[i], status, <<>>, maxLen))

Min(x, y) == IF x < y THEN x ELSE y
Max(x, y) == IF x > y THEN x ELSE y

\* the scan has not started
ScanInit ==
    /\ sPc = "idle"
    /\ origin = <<>>
    /\ seenDomains = {}
    /\ droppedDomains = 0
    /\ redirectLog = <<>>
    /\ seenPairs = {}
    /\ inflight = 0
    /\ sinceChange = 0
    /\ waited = 0
    /\ chUrls = [c \in ChainIds |-> <<>>]
    /\ chAnswered = [c \in ChainIds |-> 0]
    /\ chNext = [c \in ChainIds |-> NoUrl]
    /\ sAborted = FALSE
    /\ scanResult = [ok |-> FALSE]

\* ------------------------------------------------------------------------
\* scanDomainOnce of the hardened variant (part_003:187-287): the network
\* events of one scan
\* ------------------------------------------------------------------------

\* part_003:12, MAX_REDIRECT_STEPS (default 20): run with MAX_REDIRECT_STEPS=2
MAX_REDIRECT_STEPS == 2
\* part_003:16, MAX_REDIRECT_LOG (default 50): run with MAX_REDIRECT_LOG=4
MAX_REDIRECT_LOG == 4
\* part_003:15, MAX_DOMAINS (default 5000): run with MAX_DOMAINS=2
MAX_DOMAINS == 2
\* part_003:17, NAV_TIMEOUT_MS (default 30000): run with NAV_TIMEOUT_MS=300
NAV_TIMEOUT_MS == 300
\* part_003:18, QUIET_WINDOW_MS (default 600): run with QUIET_WINDOW_MS=200
QUIET_WINDOW_MS == 200
\* the sleep of the settle loop (part_003:254)
POLL_MS == 100

\* the urls the scanned site redirects to, the url of its subresource and
\* the url that one redirects to
SiteUrls == {Url(HostA, "/x"), Url(HostB, "/")}
SubUrls == {Url(HostGoogle, "/")}
SubRedirectUrls == {Url(HostAds, "/")}
UrlsOf(c) == IF c = "doc" THEN SiteUrls ELSE SubRedirectUrls

\* the two branches `if (seenDomains.size < MAX_DOMAINS) seenDomains.add(d);
\* else droppedDomains++` (part_003:210-213, 220-223)
AddDomain(seen, dropped, d) ==
    IF d = <<>> THEN [seen |-> seen, dropped |-> dropped]
    ELSE IF Cardinality(seen) < MAX_DOMAINS
        THEN [seen |-> seen \cup {d}, dropped |-> dropped]
        ELSE [seen |-> seen, dropped |-> dropped + 1]

RECURSIVE PushDeduplicated(_, _, _)
\* the loop over the piece (part_003:227-237): the new <<log, pairs>>
PushDeduplicated(piece, log, pairs) ==
    IF piece = <<>> \/ Len(log) >= MAX_REDIRECT_LOG THEN <<log, pairs>>
    ELSE LET p == Head(piece)
             key == <<p.from, p.to>>
         IN  IF key \notin pairs
                 THEN PushDeduplicated(Tail(piece), Append(log, p),
                                       pairs \cup {key})
                 ELSE PushDeduplicated(Tail(piece), log, pairs)

\* onReq (part_003:206-214) for a request to url u
OnReqH(u) ==
    LET a == AddDomain(seenDomains, droppedDomains, ExtractDomain(u))
    IN  /\ inflight' = inflight + 1
        /\ sinceChange' = 0
        /\ seenDomains' = a.seen
        /\ droppedDomains' = a.dropped
        /\ UNCHANGED <<redirectLog, seenPairs>>

\* onResp (part_003:215-239) for the response with `status` to request i of
\* chain c
OnRespH(c, i, status) ==
    LET a == AddDomain(seenDomains, droppedDomains, ExtractDomain(chUrls[c][i]))
        piece == BuildRedirectChainForResponse(chUrls[c], i, status,
                                               MAX_REDIRECT_LOG)
        pushed == IF status >= 300 /\ status < 400
                      THEN PushDeduplicated(piece, redirectLog, seenPairs)
                      ELSE <<redirectLog, seenPairs>>
    IN  /\ inflight' = Max(0, inflight - 1)
        /\ sinceChange' = 0
        /\ seenDomains' = a.seen
        /\ droppedDomains' = a.dropped
        /\ redirectLog' = pushed[1]
        /\ seenPairs' = pushed[2]

\* scanDomainOnce is entered; browser, context and page exist, the handlers
\* are attached and page.goto(startUrl) is called (part_003:188-246)
StartScanH(o) ==
    /\ UNCHANGED notScanVars
    /\ sPc = "idle"
    /\ sPc' = "goto"
    /\ origin' = o
    /\ UNCHANGED <<seenDomains, droppedDomains, redirectLog, seenPairs, inflight,
                   sinceChange, waited, chUrls, chAnswered, chNext, sAborted,
                   scanResult>>

\* the url the next request of chain c goes to: the start url or a
\* subresource's url for its first request, the Location of the last
\* response for a redirected one
NextRequestUrls(c, startUrl) ==
    IF Len(chUrls[c]) = 0
        THEN IF c = "doc" THEN {startUrl}
             ELSE IF DocLoaded THEN SubUrls ELSE {}
    ELSE IF chNext[c] # NoUrl THEN {chNext[c]}
    ELSE {}

\* the page emits 'request'
RequestH(c) ==
    /\ UNCHANGED notScanVars
    /\ sPc \in LivePcs
    /\ ~Unanswered(c)
    /\ \E u \in NextRequestUrls(c, Url(origin, "/")) :
          /\ chUrls' = [chUrls EXCEPT ![c] = Append(@, u)]
          /\ OnReqH(u)
    /\ chNext' = [chNext EXCEPT ![c] = NoUrl]
    /\ UNCHANGED <<sPc, origin, waited, chAnswered, sAborted, scanResult>>

\* the page emits 'response': a redirect to loc with one of the given
\* statuses, or a final response
ResponseWithH(c, statuses) ==
    /\ UNCHANGED <<serverVars, cacheVars, orchVars, routeVars, precheckVars,
                   chFailed, semOrderVars>>
    /\ sPc \in LivePcs
    /\ Unanswered(c)
    /\ \/ /\ Len(chUrls[c]) <= MaxHops
          /\ \E status \in statuses, loc \in UrlsOf(c) :
                /\ chNext' = [chNext EXCEPT ![c] = loc]
                /\ chStatus' = [chStatus EXCEPT ![c] = Append(@, status)]
                /\ OnRespH(c, Len(chUrls[c]), status)
       \/ /\ chNext' = chNext
          /\ chStatus' = [chStatus EXCEPT ![c] = Append(@, 200)]
          /\ OnRespH(c, Len(chUrls[c]), 200)
    /\ chAnswered' = [chAnswered EXCEPT ![c] = @ + 1]
    /\ UNCHANGED <<sPc, origin, waited, chUrls, sAborted, scanResult>>

\* the page emits 'response'
ResponseH(c) == ResponseWithH(c, RedirectStatuses)

\* the page emits 'response'; a redirect is a 301 or a 302
ResponseMixedH(c) == ResponseWithH(c, RedirectStatusesH)

\* after the settle loop (part_003:257-265): visitedUrls is a fresh empty
\* Set, so `visitedUrls.has(finalUrl)` is false; then the length check; then
\* context.close() is called.  Yields the next position.
PostSettleH ==
    IF Len(redirectLog) > MAX_REDIRECT_STEPS THEN "catch_close" ELSE "closing"

\* the settle loop breaking out as soon as no request is open
SettleIterationNoQuiet(w, q) ==
    IF w < NAV_TIMEOUT_MS
        THEN IF sAborted THEN "catch_close"
             ELSE IF inflight = 0 THEN PostSettleH
             ELSE "settle"
        ELSE PostSettleH

\* one evaluation of the settle loop (part_003:250-255) when w ms have
\* passed since startWait and q ms since lastNetChange: the next position
SettleIterationH(w, q) ==
    IF w < NAV_TIMEOUT_MS
        THEN IF sAborted THEN "catch_close"
             ELSE IF inflight = 0 /\ q >= QUIET_WINDOW_MS THEN PostSettleH
             ELSE "settle"
        ELSE PostSettleH

\* `await page.goto()` settles (part_003:246): resolved once the document
\* is loaded, then startWait = Date.now() and the loop is entered; or
\* rejected (timeout, network error)
GotoDoneH ==
    /\ UNCHANGED notScanVars
    /\ sPc = "goto"
    /\ \/ /\ DocLoaded
          /\ sPc' = SettleIterationH(0, sinceChange)
       \/ sPc' = "catch_close"
    /\ waited' = 0
    /\ UNCHANGED <<origin, seenDomains, droppedDomains, redirectLog, seenPairs,
                   inflight, sinceChange, chUrls, chAnswered, chNext, sAborted,
                   scanResult>>

\* the 100 ms sleep of the settle loop is over (part_003:254) and the loop
\* condition is evaluated again
SettlePollH ==
    /\ UNCHANGED notScanVars
    /\ sPc = "settle"
    /\ waited' = Min(NAV_TIMEOUT_MS, waited + POLL_MS)
    /\ sinceChange' = Min(QUIET_WINDOW_MS, sinceChange + POLL_MS)
    /\ sPc' = SettleIterationH(waited', sinceChange')
    /\ UNCHANGED <<origin, seenDomains, droppedDomains, redirectLog, seenPairs,
                   inflight, chUrls, chAnswered, chNext, sAborted, scanResult>>

\* time passes while page.goto() is awaited: Date.now() - lastNetChange grows
ElapseH ==
    /\ UNCHANGED notScanVars
    /\ sPc = "goto"
    /\ sinceChange < QUIET_WINDOW_MS
    /\ sinceChange' = Min(QUIET_WINDOW_MS, sinceChange + POLL_MS)
    /\ UNCHANGED <<sPc, origin, seenDomains, droppedDomains, redirectLog,
                   seenPairs, inflight, waited, chUrls, chAnswered, chNext,
                   sAborted, scanResult>>

NetworkInit ==
    /\ chFailed = [c \in ChainIds |-> FALSE]
    /\ chStatus = [c \in ChainIds |-> <<>>]

\* the page emits 'requestfailed' for the open request of chain c (the
\* connection was refused or reset, the request was cancelled): the request
\* is over without a 'response' event.  No handler is attached to that
\* event (part_003:206-242), so no variable of the scan changes.
RequestFailedH(c) ==
    /\ sPc \in LivePcs
    /\ Unanswered(c)
    /\ chFailed' = [chFailed EXCEPT ![c] = TRUE]
    /\ UNCHANGED <<serverVars, cacheVars, scanVars, orchVars, routeVars,
                   precheckVars, chStatus, semOrderVars>>

\* the handler's timer calls ac.abort() (part_003:300)
AbortH ==
    /\ UNCHANGED notScanVars
    /\ sPc \in {"goto", "settle"}
    /\ ~sAborted
    /\ sAborted' = TRUE
    /\ UNCHANGED <<sPc, origin, seenDomains, droppedDomains, redirectLog,
                   seenPairs, inflight, sinceChange, waited, chUrls, chAnswered,
                   chNext, scanResult>>

\* Array.prototype.includes / String.prototype.includes on code units: pat
\* occurs in str
Includes(str, pat) ==
    \E i \in 0..(Len(str) - Len(pat)) :
        \A j \in 1..Len(pat) : str[i + j] = pat[j]

RECURSIVE LexLess(_, _)
\* the default comparison of sort(): by UTF-16 code units
LexLess(x, y) ==
    IF y = <<>> THEN FALSE
    ELSE IF x = <<>> THEN TRUE
    ELSE IF Head(x) # Head(y) THEN Head(x) < Head(y)
    ELSE LexLess(Tail(x), Tail(y))

RECURSIVE SortHosts(_)
\* Array.from(set).sort()
SortHosts(set) ==
    IF set = {} THEN <<>>
    ELSE LET least == CHOOSE x \in set : \A y \in set \ {x} : LexLess(x, y)
         IN  <<least>> \o SortHosts(set \ {least})

\* .filter(d => !d.includes('doubleclick') && !d.includes('google'))
\* (part_003:269, part_002:292)
NotTracker(d) == ~Includes(d, StrDoubleclick) /\ ~Includes(d, StrGoogle)

\* the hosts sorted but not filtered
UnfilteredDomains(seen) == SortHosts(seen)

\* the filtered, sorted hosts (part_003:268-270, part_002:291-293)
FilteredDomains(seen) == SortHosts({d \in seen : NotTracker(d)})

\* `await context.close()` settles and the result is returned
\* (part_003:265-277)
CloseDoneH ==
    /\ UNCHANGED notScanVars
    /\ sPc = "closing"
    /\ sPc' = "returned"
    /\ scanResult' = [ok |-> TRUE,
                  finalUrl |-> PageUrl,
                  relatedDomains |-> FilteredDomains(seenDomains),
                  redirectChain |-> redirectLog,
                  droppedDomains |-> droppedDomains]
    /\ UNCHANGED <<origin, seenDomains, droppedDomains, redirectLog, seenPairs,
                   inflight, sinceChange, waited, chUrls, chAnswered, chNext,
                   sAborted>>

\* the catch block closes the context and rethrows (part_003:278-282)
CatchCloseDoneH ==
    /\ UNCHANGED notScanVars
    /\ sPc = "catch_close"
    /\ sPc' = "thrown"
    /\ UNCHANGED <<origin, seenDomains, droppedDomains, redirectLog, seenPairs,
                   inflight, sinceChange, waited, chUrls, chAnswered, chNext,
                   sAborted, scanResult>>

\* ------------------------------------------------------------------------
\* The orchestrator (part_002): GET /domains -> scanDomainOnce ->
\* scanWithBrowser, for one request
\* ------------------------------------------------------------------------

\* part_002:13, MAX_REDIRECT_STEPS (default 20): run with MAX_REDIRECT_STEPS=4
MAX_REDIRECT_STEPS_O == 4
\* part_002:14, NAV_TIMEOUT_MS (default 30000): run with NAV_TIMEOUT_MS=200
NAV_TIMEOUT_MS_O == 200
\* part_002:15, QUIET_WINDOW_MS (default 700): run with QUIET_WINDOW_MS=100
QUIET_WINDOW_MS_O == 100

\* the domains requested
OrchOrigins == {HostZ, HostGoogle}

\* `https://${originDomain}` (part_002:314)
StartUrl(o) == Url(o, "/")

\* the url a precheck redirect leads to
PrecheckTarget == Url(HostB, "/")

\* a reason string: `tag`, or `tag(arg)` when arg is a url
Reason(tag, arg) == [tag |-> tag, arg |-> arg]

\* reason: null, and a property that is absent
NoReason == Reason("", NoUrl)

\* a return value of precheckFollowManually (part_002:100-151); finalUrl is
\* NoUrl where the property is missing or null
PreResult(skip, reason, tryBrowser, final) ==
    [skip |-> skip, reason |-> reason, tryBrowser |-> tryBrowser,
     finalUrl |-> final]

\* the return values of precheckFollowManually(startUrl)
PrecheckOutcomes(startUrl) ==
    { PreResult(FALSE, NoReason, FALSE, NoUrl),                   \* l.116
      PreResult(FALSE, NoReason, FALSE, startUrl),                \* l.147
      PreResult(TRUE, Reason("forbidden", NoUrl), TRUE, NoUrl),   \* l.127
      PreResult(TRUE, Reason("redirect-loop", NoUrl), TRUE, NoUrl),   \* l.108
      PreResult(TRUE, Reason("redirect-loop", NoUrl), FALSE, NoUrl),  \* l.108
      PreResult(TRUE, Reason("redirect-loop(N)", NoUrl), TRUE, NoUrl),   \* l.150
      PreResult(TRUE, Reason("redirect-loop(N)", NoUrl), FALSE, NoUrl),  \* l.150
      PreResult(TRUE, Reason("redirect-to-file", PrecheckTarget), FALSE,
                PrecheckTarget),                                  \* l.132
      PreResult(TRUE, Reason("marketing-redirect", PrecheckTarget), FALSE,
                PrecheckTarget),                                  \* l.139
      PreResult(TRUE, Reason("attachment", NoUrl), FALSE, startUrl),  \* l.145
      PreResult(TRUE, Reason("non-HTML", NoUrl), FALSE, startUrl) }   \* l.146

NoPre == PreResult(FALSE, NoReason, FALSE, NoUrl)

OrchInit ==
    /\ pre = NoPre
    /\ targetUrl = NoUrl
    /\ finalUrl = NoUrl
    /\ docStatus = 0
    /\ response = [sent |-> FALSE]
    /\ writes = <<>>

\* `x || y` on urls
OrElse(x, y) == IF x = NoUrl THEN y ELSE x

\* res.status(code).json(body): the first response is the one the client
\* gets, a later one throws ERR_HTTP_HEADERS_SENT
Send(body) == IF response.sent THEN response ELSE body

\* what the catch of the handler passes to res.json when the try block
\* threw a message without 403, forbidden or blocked (part_002:461-469)
InternalErrorBody == [sent |-> TRUE, code |-> 500]

\* the handler calls res.status(200).json(body) in its try block
\* (part_002:429, 440, 453): when a response has been sent already the call
\* throws, and the catch block calls res.status(500).json() (part_002:465)
Respond(body) ==
    /\ response' = Send(body)
    /\ writes' = IF response.sent THEN writes \o <<body, InternalErrorBody>>
                                   ELSE Append(writes, body)

\* the body for a result that carries a precheck tag (part_002:427-450)
PrecheckBody(res) ==
    [sent |-> TRUE, code |-> 200, domain |-> origin,
     finalUrl |-> OrElse(res.finalUrl, StartUrl(origin)),
     relatedDomains |-> <<origin>>,
     redirectChain |-> <<>>,
     cached |-> FALSE,
     status |-> IF res.precheck.tag = "marketing-redirect" THEN "ok"
                ELSE IF res.precheck \in {Reason("forbidden", NoUrl),
                                          Reason("blocked", NoUrl)}
                    THEN "blocked"
                ELSE "skipped",
     note |-> IF res.precheck.tag = "marketing-redirect" THEN res.precheck
              ELSE NoReason,
     reason |-> IF res.precheck.tag = "marketing-redirect" THEN NoReason
                ELSE res.precheck]

\* the body for a scan result (part_002:453-460)
ScanBody(res) ==
    [sent |-> TRUE, code |-> 200, domain |-> origin,
     finalUrl |-> res.finalUrl,
     relatedDomains |-> res.relatedDomains,
     redirectChain |-> res.redirectChain,
     cached |-> FALSE,
     status |-> "ok",
     note |-> NoReason,
     reason |-> NoReason]

\* the handler after scanDomainOnce returned `res` (part_002:427-460)
HandleResult(res) ==
    IF res.precheck # NoReason
        THEN /\ Respond(PrecheckBody(res))
             /\ UNCHANGED cacheVars
        ELSE /\ PutRow(origin, res)
             /\ Respond(ScanBody(res))

\* scanDomainOnce returns `res` to the handler, which answers; the page,
\* its handlers and the counters of scanWithBrowser are gone (part_002:306-309)
Return(res) ==
    /\ scanResult' = res
    /\ HandleResult(res)
    /\ sPc' = "done"
    /\ inflight' = 0
    /\ sinceChange' = 0
    /\ waited' = 0
    /\ chUrls' = [c \in ChainIds |-> <<>>]
    /\ chAnswered' = [c \in ChainIds |-> 0]
    /\ chNext' = [c \in ChainIds |-> NoUrl]
    /\ redirectLog' = <<>>
    /\ docStatus' = 0
    /\ finalUrl' = NoUrl

\* the catch of scanDomainOnce dropping the precheck tag
FallbackWithoutTag(p, target) ==
    [ok |-> TRUE, finalUrl |-> target, relatedDomains |-> <<origin>>,
     redirectChain |-> <<>>,
     precheck |-> Reason("blocked", NoUrl)]

\* the catch of scanDomainOnce (part_002:345-348)
Fallback(p, target) ==
    [ok |-> TRUE, finalUrl |-> target, relatedDomains |-> <<origin>>,
     redirectChain |-> <<>>,
     precheck |-> IF p.reason = NoReason THEN Reason("blocked", NoUrl)
                  ELSE p.reason]

\* GET /domains?domain=o: the cache misses and scanDomainOnce awaits the
\* precheck (part_002:393-425, 313-316)
StartO(o) ==
    /\ UNCHANGED <<serverVars, sideVars>>
    /\ sPc = "idle"
    /\ ~GetFromCache(rows, now, o).hit
    /\ sPc' = "precheck"
    /\ origin' = o
    /\ UNCHANGED <<seenDomains, droppedDomains, redirectLog, seenPairs, inflight,
                   sinceChange, waited, chUrls, chAnswered, chNext, sAborted,
                   scanResult>>
    /\ UNCHANGED <<cacheVars, orchVars>>

\* scanDomainOnce answering without the browser for attachments only
SkipsBrowserOnAttachmentOnly(p) == p.skip /\ p.reason.tag = "attachment"

\* `pre.skip && (pre.reason === 'attachment' ||
\*               (pre.reason || '').startsWith('non-HTML'))` (part_002:318)
SkipsBrowser(p) == p.skip /\ p.reason.tag \in {"attachment", "non-HTML"}

\* precheckFollowManually returns p (part_002:316-340): non-HTML and
\* attachments are answered without the browser; otherwise scanWithBrowser
\* is entered and awaits the browser, the context, the route and the page
PrecheckDoneO(p) ==
    /\ UNCHANGED <<serverVars, sideVars>>
    /\ sPc = "precheck"
    /\ pre' = p
    /\ IF SkipsBrowser(p)
           THEN /\ Return([ok |-> TRUE,
                           finalUrl |-> OrElse(p.finalUrl, StartUrl(origin)),
                           relatedDomains |-> <<origin>>,
                           redirectChain |-> <<>>,
                           precheck |-> p.reason])
                /\ UNCHANGED targetUrl
           ELSE /\ targetUrl' =
                      IF p.skip /\ p.reason.tag = "marketing-redirect"
                                /\ p.finalUrl # NoUrl
                          THEN p.finalUrl ELSE StartUrl(origin)
                /\ sPc' = "launch"
                /\ UNCHANGED <<scanResult, response, writes, cacheVars, redirectLog,
                               inflight, sinceChange, waited, chUrls, chAnswered,
                               chNext, finalUrl, docStatus>>
    /\ UNCHANGED <<origin, seenDomains, droppedDomains, seenPairs, sAborted>>

\* ensureBrowser, newContext, context.route and newPage settle
\* (part_002:193-218): the handlers are attached and page.goto(startUrl) is
\* called, or the rejection lands in the catch of scanDomainOnce
LaunchDoneO ==
    /\ UNCHANGED <<serverVars, sideVars>>
    /\ sPc = "launch"
    /\ \/ /\ sPc' = "goto"
          /\ UNCHANGED <<scanResult, response, writes, cacheVars, redirectLog, inflight,
                         sinceChange, waited, chUrls, chAnswered, chNext,
                         finalUrl, docStatus>>
       \/ Return(Fallback(pre, targetUrl))
    /\ UNCHANGED <<origin, seenDomains, droppedDomains, seenPairs, sAborted, pre,
                   targetUrl>>

\* onReq (part_002:237-243) for a request to url u
OnReqO(u) ==
    /\ inflight' = inflight + 1
    /\ sinceChange' = 0
    /\ seenDomains' = IF ExtractDomain(u) # <<>>
                          THEN seenDomains \cup {ExtractDomain(u)}
                          ELSE seenDomains
    /\ UNCHANGED redirectLog

\* onResp (part_002:244-256) for the response with `status` to request i of
\* chain c
OnRespO(c, i, status) ==
    LET d == ExtractDomain(chUrls[c][i])
        piece == IF ResourceType(c) # "document" THEN <<>>
                 ELSE BuildRedirectChainForResponse(chUrls[c], i, status,
                                                    MAX_REDIRECT_STEPS_O + 5)
    IN  /\ inflight' = Max(0, inflight - 1)
        /\ sinceChange' = 0
        /\ seenDomains' = IF d # <<>> THEN seenDomains \cup {d} ELSE seenDomains
        /\ redirectLog' =
              IF status >= 300 /\ status < 400 /\ ResourceType(c) = "document"
                  THEN redirectLog \o piece
                  ELSE redirectLog

\* the page emits 'request'
RequestO(c) ==
    /\ UNCHANGED <<serverVars, sideVars, cacheVars>>
    /\ sPc \in LivePcs
    /\ ~Unanswered(c)
    /\ \E u \in NextRequestUrls(c, targetUrl) :
          /\ chUrls' = [chUrls EXCEPT ![c] = Append(@, u)]
          /\ OnReqO(u)
    /\ chNext' = [chNext EXCEPT ![c] = NoUrl]
    /\ UNCHANGED <<sPc, origin, droppedDomains, seenPairs, waited, chAnswered,
                   sAborted, scanResult, orchVars>>

\* a subresource of the orchestrator's scan follows at most MaxAssetHops
\* redirects
MaxAssetHops == 1

\* the statuses of a response that is no redirect: 508 is what the route
\* handler fulfils a navigation with when route.fetch gave up
\* (part_002:199-216)
FinalStatuses(c) == IF c = "doc" THEN {200, 508} ELSE {200}

\* the page emits 'response': a redirect to loc, or a final response
ResponseO(c) ==
    /\ UNCHANGED <<serverVars, sideVars, cacheVars>>
    /\ sPc \in LivePcs
    /\ Unanswered(c)
    /\ \E status \in RedirectStatuses \cup FinalStatuses(c) :
          /\ IF status \in RedirectStatuses
                 THEN /\ Len(chUrls[c]) <= (IF c = "doc" THEN MaxHops ELSE MaxAssetHops)
                      /\ \E loc \in UrlsOf(c) :
                            chNext' = [chNext EXCEPT ![c] = loc]
                 ELSE chNext' = chNext
          /\ OnRespO(c, Len(chUrls[c]), status)
          /\ docStatus' = IF c = "doc" THEN status ELSE docStatus
    /\ chAnswered' = [chAnswered EXCEPT ![c] = @ + 1]
    /\ UNCHANGED <<sPc, origin, droppedDomains, seenPairs, waited, chUrls,
                   sAborted, scanResult, pre, targetUrl, finalUrl, response,
                   writes>>

\* after quietWindowWait (part_002:280-289): visitedUrls is a fresh empty
\* Set; the length check; then context.close() is called
PostQuietO ==
    IF Len(redirectLog) > MAX_REDIRECT_STEPS_O THEN "catch_close" ELSE "closing"

\* one evaluation of the loop of quietWindowWait (part_002:184-188) when w
\* ms have passed since start and q ms since the last network change
QuietIterationO(w, q) ==
    IF w < NAV_TIMEOUT_MS_O /\ ~(inflight = 0 /\ q >= QUIET_WINDOW_MS_O)
        THEN "settle"
        ELSE PostQuietO

\* `await page.goto()` settles (part_002:262-279): resolved with the
\* document's response, where 508 is thrown as "Too many redirects";
\* rejected with "Download is starting", which is swallowed; or rejected
\* with another error, which is rethrown
GotoDoneO ==
    /\ UNCHANGED <<serverVars, sideVars, cacheVars>>
    /\ sPc = "goto"
    /\ \/ /\ DocLoaded
          /\ sPc' = IF docStatus = 508 THEN "catch_close"
                    ELSE QuietIterationO(0, sinceChange)
       \/ /\ ~DocLoaded
          /\ sPc' = QuietIterationO(0, sinceChange)
       \/ sPc' = "catch_close"
    /\ waited' = 0
    /\ finalUrl' = IF sPc' = "closing" THEN PageUrl ELSE finalUrl
    /\ UNCHANGED <<origin, seenDomains, droppedDomains, redirectLog, seenPairs,
                   inflight, sinceChange, chUrls, chAnswered, chNext, sAborted,
                   scanResult, pre, targetUrl, docStatus, response, writes>>

\* the 100 ms timer of quietWindowWait fires (part_002:187) and the loop
\* condition is evaluated again
QuietPollO ==
    /\ UNCHANGED <<serverVars, sideVars, cacheVars>>
    /\ sPc = "settle"
    /\ waited' = Min(NAV_TIMEOUT_MS_O, waited + POLL_MS)
    /\ sinceChange' = Min(QUIET_WINDOW_MS_O, sinceChange + POLL_MS)
    /\ sPc' = QuietIterationO(waited', sinceChange')
    /\ finalUrl' = IF sPc' = "closing" THEN PageUrl ELSE finalUrl
    /\ UNCHANGED <<origin, seenDomains, droppedDomains, redirectLog, seenPairs,
                   inflight, chUrls, chAnswered, chNext, sAborted, scanResult,
                   pre, targetUrl, docStatus, response, writes>>

\* time passes while page.goto() is awaited
ElapseO ==
    /\ UNCHANGED <<serverVars, sideVars, cacheVars>>
    /\ sPc = "goto"
    /\ sinceChange < QUIET_WINDOW_MS_O
    /\ sinceChange' = Min(QUIET_WINDOW_MS_O, sinceChange + POLL_MS)
    /\ UNCHANGED <<sPc, origin, seenDomains, droppedDomains, redirectLog,
                   seenPairs, inflight, waited, chUrls, chAnswered, chNext,
                   sAborted, scanResult, orchVars>>

\* `if (!result.relatedDomains.includes(originDomain))
\*      result.relatedDomains.unshift(originDomain)` (part_002:341-343)
WithOrigin(list, o) ==
    IF \E i \in 1..Len(list) : list[i] = o THEN list ELSE <<o>> \o list

\* what scanWithBrowser returns (part_002:291-296)
BrowserResult ==
    [ok |-> TRUE, finalUrl |-> finalUrl,
     relatedDomains |-> FilteredDomains(seenDomains),
     redirectChain |-> redirectLog,
     precheck |-> NoReason]

\* `await context.close()` settles (part_002:289-296, 340-344, 427-460):
\* scanWithBrowser returns, scanDomainOnce adds the origin and returns, the
\* handler caches the result and answers; or close() rejects
CloseDoneO ==
    /\ sPc = "closing"
    /\ \/ /\ Return([BrowserResult EXCEPT
                       !.relatedDomains = WithOrigin(@, origin)])
       \/ /\ sPc' = "catch_close"
          /\ UNCHANGED <<scanResult, response, writes, cacheVars, redirectLog, inflight,
                         sinceChange, waited, chUrls, chAnswered, chNext,
                         finalUrl, docStatus>>
    /\ UNCHANGED <<serverVars, sideVars>>
    /\ UNCHANGED <<origin, seenDomains, droppedDomains, seenPairs, sAborted, pre,
                   targetUrl>>

\* the catch of scanWithBrowser has closed the context and rethrows; the
\* catch of scanDomainOnce returns the fallback (part_002:297-305, 345-348)
CatchCloseDoneO ==
    /\ sPc = "catch_close"
    /\ Return(Fallback(pre, targetUrl))
    /\ UNCHANGED <<serverVars, sideVars>>
    /\ UNCHANGED <<origin, seenDomains, droppedDomains, seenPairs, sAborted, pre,
                   targetUrl>>

\* hardTimer fires (part_002:404-406).  The callback touches nothing but
\* the response, which the handler reads only when it answers, so it is
\* taken at the awaits that precede an answer.
HardTimeoutO ==
    /\ UNCHANGED <<serverVars, sideVars, cacheVars, scanVars>>
    /\ sPc \in {"precheck", "launch", "closing", "catch_close"}
    /\ ~response.sent
    /\ response' = [sent |-> TRUE, code |-> 504]
    /\ writes' = Append(writes, response')
    /\ UNCHANGED <<pre, targetUrl, finalUrl, docStatus>>

\* ------------------------------------------------------------------------
\* The redirect limiter: context.route('**', handler) (part_002:199-216)
\* ------------------------------------------------------------------------

\* the number of requests the context intercepts
NumRoutes == 2

\* the longest chain of redirects a server answers a request with
MaxRouteHops == 5

Routes == 1..NumRoutes

ResourceTypes == {"document", "script", "xhr"}

\* route.request(): its resourceType(), its isNavigationRequest(), and the
\* number of 3xx answers that precede the final answer for its url
RouteRequests ==
    [resourceType : ResourceTypes, isNav : BOOLEAN, hops : 0..MaxRouteHops]

NoRequest == [resourceType |-> "", isNav |-> FALSE, hops |-> 0]

\* the statuses of a final answer
FetchStatuses == {200, 404}

\* the calls on a route
FetchCall(maxRedirects) == [op |-> "fetch", arg |-> maxRedirects]
FulfillCall(status) == [op |-> "fulfill", arg |-> status]
ContinueCall == [op |-> "continue", arg |-> 0]

\* how `await route.fetch({ maxRedirects })` settles for a url behind
\* `hops` redirects: 0 stands for a rejection (more redirects than allowed,
\* or a transport error), otherwise the status of the final answer
FetchOutcomes(hops, maxRedirects) ==
    {0} \cup (IF hops <= maxRedirects THEN FetchStatuses ELSE {})

RouteInit ==
    /\ routeReq = [r \in Routes |-> NoRequest]
    /\ routePc = [r \in Routes |-> "none"]
    /\ routeCalls = [r \in Routes |-> <<>>]

\* the limiter applied to every document request, navigation or not
LimitsEveryDocument(req) == req.resourceType = "document"

\* `isDoc && isNav` (part_002:201-203)
LimitsRedirects(req) == req.resourceType = "document" /\ req.isNav

\* The context intercepts a request and calls the handler, which runs to
\* its first await (part_002:199-205, 215): a document navigation is
\* re-issued with route.fetch, anything else is continued.  Routes are
\* numbered in the order of interception.
InterceptR(r) ==
    /\ UNCHANGED notRouteVars
    /\ routePc[r] = "none"
    /\ r > 1 => routePc[r - 1] # "none"
    /\ \E req \in RouteRequests :
        /\ routeReq' = [routeReq EXCEPT ![r] = req]
        /\ IF LimitsRedirects(req)
               THEN /\ routeCalls' = [routeCalls EXCEPT
                          ![r] = Append(@, FetchCall(MAX_REDIRECT_STEPS_O))]
                    /\ routePc' = [routePc EXCEPT ![r] = "fetching"]
               ELSE /\ routeCalls' = [routeCalls EXCEPT
                          ![r] = Append(@, ContinueCall)]
                    /\ routePc' = [routePc EXCEPT ![r] = "done"]

\* `await route.fetch()` settles (part_002:205-213): the route is fulfilled
\* with the response, or with 508 from the catch block when fetch rejected;
\* the handler returns the promise of fulfill without awaiting it
FetchDoneR(r) ==
    /\ UNCHANGED notRouteVars
    /\ routePc[r] = "fetching"
    /\ \E out \in FetchOutcomes(routeReq[r].hops, routeCalls[r][1].arg) :
        routeCalls' = [routeCalls EXCEPT
            ![r] = Append(@, FulfillCall(IF out = 0 THEN 508 ELSE out))]
    /\ routePc' = [routePc EXCEPT ![r] = "done"]
    /\ UNCHANGED routeReq

\* ------------------------------------------------------------------------
\* precheckFollowManually (part_002:100-151)
\* ------------------------------------------------------------------------

\* part_002:16, parseInt(process.env.PRECHECK_MAX_REDIRECTS || '15'): run
\* with PRECHECK_MAX_REDIRECTS=3
PRECHECK_MAX_REDIRECTS == 3

\* "c.com"
HostC == <<99, 46, 99, 111, 109>>

\* a url with its fragment
HashUrl(h, p, f) == [host |-> h, path |-> p, hash |-> f]

\* the url precheckFollowManually is called with
PrecheckStart == HashUrl(HostA, "/", "")

\* the urls a Location header resolves to
PrecheckUrls ==
    { HashUrl(HostA, "/", ""), HashUrl(HostA, "/", "#f"),
      HashUrl(HostB, "/", ""), HashUrl(HostC, "/", ""),
      HashUrl(HostZ, "/", ""), HashUrl(HostB, "/f.zip", ""),
      HashUrl(HostC, "/export", "") }

\* no Location header, and a Location that `new URL(loc, url)` rejects
NoLoc == HashUrl(<<>>, "", "")
BadLoc == HashUrl(<<>>, "http://", "")

\* the answers of a server to the walk's fetch: status, content-type ("" when
\* the header is missing), whether content-disposition says attachment, and
\* the location header
WalkResponses ==
    [status : {200, 302, 403},
     ct : {"", "text/html", "application/pdf"},
     attachment : BOOLEAN,
     loc : PrecheckUrls \cup {NoLoc, BadLoc}]

\* how the probe fetch settles: it rejects, or answers with or without a
\* text/html content type
ProbeOutcomes == {"throws", "html", "other"}

\* `new URL(loc, url)` threw a TypeError, which leaves the function
PrecheckThrew == PreResult(FALSE, Reason("TypeError", NoUrl), FALSE, NoUrl)

\* looksLikeFilePath(u) (part_002:83-89)
LooksLikeFilePath(u) == u.path \in {"/f.zip"}

\* /download|file|export/i.test(u) (part_002:131)
MentionsFile(u) == u.path \in {"/export"}

\* normalizeUrlForLoop leaving the fragment in place
KeepsHash(u) == u

\* normalizeUrlForLoop(u) (part_002:91-97)
NormalizeUrlForLoop(u) == [u EXCEPT !.hash = ""]

PrecheckInit ==
    /\ pPc = "idle"
    /\ pUrl = NoLoc
    /\ pI = 0
    /\ pVisited = {}
    /\ pSawHtmlHint = FALSE
    /\ pNextUrl = NoLoc
    /\ pResult = NoPre
    /\ pFetched = <<>>
    /\ pProbes = 0

\* `return r`
ReturnP(r) ==
    /\ pPc' = "done"
    /\ pResult' = r

\* the top of the loop with url = u and i = k, up to `await fetch(url)`
\* (part_002:104-113) or to the return after the loop (part_002:149-150)
EnterIteration(u, k) ==
    /\ pUrl' = u
    /\ pI' = k
    /\ pNextUrl' = NoLoc
    /\ UNCHANGED pSawHtmlHint
    /\ IF k >= PRECHECK_MAX_REDIRECTS
           THEN /\ ReturnP(PreResult(TRUE, Reason("redirect-loop(N)", NoUrl),
                                     pSawHtmlHint, NoUrl))
                /\ UNCHANGED <<pVisited, pFetched, pProbes>>
       ELSE IF NormalizeUrlForLoop(u) \in pVisited
           THEN /\ ReturnP(PreResult(TRUE, Reason("redirect-loop", NoUrl),
                                     pSawHtmlHint, NoUrl))
                /\ UNCHANGED <<pVisited, pFetched, pProbes>>
       ELSE /\ pVisited' = pVisited \cup {NormalizeUrlForLoop(u)}
            /\ pFetched' = Append(pFetched,
                                  [url |-> u, html |-> FALSE,
                                   attachment |-> FALSE])
            /\ pProbes' = 0
            /\ pPc' = "fetch"
            /\ UNCHANGED pResult

\* precheckFollowManually(startUrl) is called (part_002:100-113)
StartP ==
    /\ UNCHANGED notPrecheckVars
    /\ pPc = "idle"
    /\ EnterIteration(PrecheckStart, 0)

\* `await fetch(url, { redirect: 'manual' })` settles (part_002:113-147)
FetchDoneP ==
    /\ UNCHANGED notPrecheckVars
    /\ pPc = "fetch"
    /\ UNCHANGED <<pUrl, pI, pVisited>>
    /\ \/ /\ ReturnP(PreResult(FALSE, NoReason, FALSE, NoUrl))
          /\ UNCHANGED <<pSawHtmlHint, pNextUrl, pFetched, pProbes>>
       \/ \E res \in WalkResponses :
            LET isHtml == res.ct = "text/html"
            IN  /\ pSawHtmlHint' = (pSawHtmlHint \/ isHtml)
                /\ pFetched' = [pFetched EXCEPT
                       ![Len(pFetched)] = [url |-> pUrl, html |-> isHtml,
                                           attachment |-> res.attachment]]
                /\ IF res.status = 403
                       THEN /\ ReturnP(PreResult(TRUE,
                                   Reason("forbidden", NoUrl), TRUE, NoUrl))
                            /\ UNCHANGED <<pNextUrl, pProbes>>
                   ELSE IF res.status >= 300 /\ res.status < 400
                             /\ res.loc # NoLoc
                       THEN IF res.loc = BadLoc
                                THEN /\ ReturnP(PrecheckThrew)
                                     /\ UNCHANGED <<pNextUrl, pProbes>>
                            ELSE IF LooksLikeFilePath(res.loc)
                                      \/ MentionsFile(res.loc)
                                THEN /\ ReturnP(PreResult(TRUE,
                                            Reason("redirect-to-file", res.loc),
                                            FALSE, res.loc))
                                     /\ UNCHANGED <<pNextUrl, pProbes>>
                            ELSE /\ pNextUrl' = res.loc
                                 /\ pProbes' = pProbes + 1
                                 /\ pPc' = "probe"
                                 /\ UNCHANGED pResult
                   ELSE /\ UNCHANGED <<pNextUrl, pProbes>>
                        /\ IF res.attachment
                               THEN ReturnP(PreResult(TRUE,
                                        Reason("attachment", NoUrl), FALSE, pUrl))
                           ELSE IF ~isHtml /\ res.ct # ""
                               THEN ReturnP(PreResult(TRUE,
                                        Reason("non-HTML", NoUrl), FALSE, pUrl))
                           ELSE ReturnP(PreResult(FALSE, NoReason, FALSE, pUrl))

\* `await fetch(next, { redirect: 'manual' })`, the probe, settles
\* (part_002:134-143): a text/html target is a marketing redirect; anything
\* else, a rejection included, goes on with url = next
ProbeDoneP ==
    /\ UNCHANGED notPrecheckVars
    /\ pPc = "probe"
    /\ \E out \in ProbeOutcomes :
        IF out = "html"
            THEN /\ ReturnP(PreResult(TRUE,
                        Reason("marketing-redirect", pNextUrl), FALSE, pNextUrl))
                 /\ UNCHANGED <<pUrl, pI, pVisited, pSawHtmlHint, pNextUrl,
                                pFetched, pProbes>>
            ELSE EnterIteration(pNextUrl, pI + 1)

\* ------------------------------------------------------------------------
\* Semaphore (part_003:70-93)
\* ------------------------------------------------------------------------

\* tryAcquire admitting one caller too many (`<=` for `<`)
TryAcquireOffByOne(active, queue, r) ==
    IF active <= CONCURRENCY
        THEN <<active + 1, queue, TRUE>>
        ELSE <<active, Append(queue, r), FALSE>>

\* tryAcquire of request r on semaphore state <<active, queue>>:
\* the new <<active, queue, resolved?>>
TryAcquire(active, queue, r) ==
    IF active < CONCURRENCY
        THEN <<active + 1, queue, TRUE>>
        ELSE <<active, Append(queue, r), FALSE>>

\* the release function forgetting the queue: active-- and nothing else
ReleaseFnWithoutWakeup(active, queue) == <<active - 1, queue, 0>>

\* the release function: active--, then run the first queued tryAcquire.
\* Yields <<active, queue, woken>>, woken = the request whose acquire()
\* resolved (0: none)
ReleaseFn(active, queue) ==
    IF queue = <<>>
        THEN <<active - 1, queue, 0>>
        ELSE LET next == Head(queue)
                 t == TryAcquire(active - 1, Tail(queue), next)
             IN  <<t[1], t[2], IF t[3] THEN next ELSE 0>>

\* how many callers share the semaphore
NumCallers == 4

Callers == 1..NumCallers

SemOrderInit ==
    /\ semCaller = [r \in Callers |-> "idle"]
    /\ semQueued = <<>>
    /\ semAdmitted = <<>>

\* the rest of the hardened server, which the semaphore does not touch
notSemVars == <<pc, dom, released, aborted, resp, browserVars, b, closing,
                ctx, cacheLive, cacheVars, scanVars, orchVars, routeVars,
                precheckVars, chFailed, chStatus>>

\* caller r calls sem.acquire() (part_003:76-91): tryAcquire runs at once
\* and either resolves the promise or queues itself
AcquireS(r) ==
    /\ UNCHANGED notSemVars
    /\ semCaller[r] = "idle"
    /\ LET t == TryAcquire(semActive, semQueue, r)
       IN  /\ semActive' = t[1]
           /\ semQueue' = t[2]
           /\ semCaller' = [semCaller EXCEPT
                               ![r] = IF t[3] THEN "acquired" ELSE "queued"]
           /\ semQueued' = IF t[3] THEN semQueued ELSE Append(semQueued, r)
    /\ UNCHANGED semAdmitted

\* caller r, holding a permit, calls the function acquire() resolved with
\* (part_003:81-85)
ReleaseS(r) ==
    /\ UNCHANGED notSemVars
    /\ semCaller[r] = "acquired"
    /\ LET rel == ReleaseFn(semActive, semQueue)
       IN  /\ semActive' = rel[1]
           /\ semQueue' = rel[2]
           /\ semCaller' = [q \in Callers |->
                               IF q = r THEN "done"
                               ELSE IF q = rel[3] THEN "acquired"
                               ELSE semCaller[q]]
           /\ semAdmitted' = IF rel[3] = 0 THEN semAdmitted
                                           ELSE Append(semAdmitted, rel[3])
    /\ UNCHANGED semQueued

\* ------------------------------------------------------------------------
\* app.get('/domains') of the hardened variant (part_003:290-334)
\* ------------------------------------------------------------------------

\* release() at the end of the try block instead of in finally
ReleasesOnSuccessOnly(status) == status = 200

\* the finally block (part_003:330-333) runs release() after every exit of
\* the try block, whatever status was written
FinallyReleases(status) == TRUE

\* The handler of request r leaves its try block having written `status`:
\* clearTimeout(timer); release().  The release function may resolve the
\* acquire() of the first queued request.  The frame of scanDomainOnce is
\* gone, and with it the local b, unless a context that was left open (the
\* exit at newPage) still belongs to that browser.
Finish(r, status) ==
    LET rel == IF FinallyReleases(status)
                   THEN ReleaseFn(semActive, semQueue)
                   ELSE <<semActive, semQueue, 0>>
    IN  /\ resp' = [resp EXCEPT ![r] = status]
        /\ aborted' = [aborted EXCEPT ![r] = FALSE]
        /\ released' = [released EXCEPT
                           ![r] = IF FinallyReleases(status) THEN @ + 1 ELSE @]
        /\ b' = [b EXCEPT ![r] = IF ctx[r] = "open" /\ pc[r] = "newpage"
                                     THEN @ ELSE 0]
        /\ semActive' = rel[1]
        /\ semQueue' = rel[2]
        /\ pc' = [q \in Requests |->
                     IF q = r THEN "done"
                     ELSE IF q = rel[3] THEN "acquired"
                     ELSE pc[q]]

\* A request arrives (part_003:291-298): normalizeDomain, then sem.acquire()
\* runs tryAcquire synchronously.  d = "" stands for an input normalizeDomain
\* rejects.  Requests arrive in the order of their numbers.
Start(r) ==
    /\ UNCHANGED notServerVars
    /\ pc[r] = "idle"
    /\ r > 1 => pc[r - 1] # "idle"
    /\ \E d \in Domains \cup {""} :
        IF d = ""
            THEN /\ pc' = [pc EXCEPT ![r] = "done"]
                 /\ resp' = [resp EXCEPT ![r] = 400]
                 /\ UNCHANGED <<semVars, dom>>
            ELSE LET t == TryAcquire(semActive, semQueue, r)
                 IN  /\ semActive' = t[1]
                     /\ semQueue' = t[2]
                     /\ pc' = [pc EXCEPT
                                  ![r] = IF t[3] THEN "acquired" ELSE "queued"]
                     /\ dom' = [dom EXCEPT ![r] = d]
                     /\ resp' = resp
    /\ UNCHANGED <<released, aborted, browserVars, b, closing, ctx,
                   cacheLive>>

\* ensureBrowser up to its first await or its return (part_003:155-162)
EnsureBrowserCall(r) ==
    IF IsConnected(browser)
        THEN /\ b' = [b EXCEPT ![r] = browser]
             /\ pc' = [pc EXCEPT ![r] = "newctx"]
             /\ closing' = closing
        ELSE IF browser # 0
            THEN /\ closing' = [closing EXCEPT ![r] = browser]
                 /\ pc' = [pc EXCEPT ![r] = "eb_closing"]
                 /\ b' = b
            ELSE /\ pc' = [pc EXCEPT ![r] = "eb_launching"]
                 /\ UNCHANGED <<b, closing>>

\* The handler resumes after `await sem.acquire()` (part_003:298-317): sets
\* the abort timer, looks the domain up, answers a hit, or enters
\* scanDomainOnce, which runs up to the first await of ensureBrowser.
AfterAcquire(r) ==
    /\ UNCHANGED notServerVars
    /\ pc[r] = "acquired"
    /\ IF dom[r] \in cacheLive
           THEN /\ Finish(r, 200)
                /\ closing' = closing
           ELSE /\ EnsureBrowserCall(r)
                /\ UNCHANGED <<semVars, released, aborted, resp>>
    /\ UNCHANGED <<dom, browserVars, ctx, cacheLive>>

\* setTimeout(() => ac.abort(), NAV_TIMEOUT_MS * 2) fires (part_003:300).  The
\* timer is pending from the handler's resumption until clearTimeout in its
\* finally block; it fires at most once.  The callback sets only the signal,
\* which is read by the settle loop alone (part_003:251): a firing during an
\* await before the loop is taken at the loop's first await, a firing in the
\* catch block changes nothing.
TimerFire(r) ==
    /\ UNCHANGED notServerVars
    /\ pc[r] \in {"settle", "closing"}
    /\ ~aborted[r]
    /\ aborted' = [aborted EXCEPT ![r] = TRUE]
    /\ UNCHANGED <<semVars, pc, dom, released, resp, browserVars, b, closing,
                   ctx, cacheLive>>

\* ensureBrowser: `await browser.close()` of the stale handle is over (its
\* exception is swallowed); chromium.launch() is called (part_003:159-162)
EbCloseDone(r) ==
    /\ UNCHANGED notServerVars
    /\ pc[r] = "eb_closing"
    /\ browsers' = [browsers EXCEPT ![closing[r]] = "gone"]
    /\ closing' = [closing EXCEPT ![r] = 0]
    /\ pc' = [pc EXCEPT ![r] = "eb_launching"]
    /\ UNCHANGED <<semVars, dom, released, aborted, resp, browser,
                   launched, b, ctx, cacheLive>>

\* ensureBrowser: chromium.launch() settles (part_003:162-167).  On success
\* the new browser is stored in `browser` and returned; a rejection leaves
\* scanDomainOnce before any context exists and the handler answers 500.
EbLaunchDone(r) ==
    /\ UNCHANGED notServerVars
    /\ pc[r] = "eb_launching"
    /\ \/ /\ launched' = launched + 1
          /\ browsers' = [browsers EXCEPT ![launched + 1] = "connected"]
          /\ browser' = launched + 1
          /\ b' = [b EXCEPT ![r] = launched + 1]
          /\ pc' = [pc EXCEPT ![r] = "newctx"]
          /\ UNCHANGED <<semVars, released, aborted, resp>>
       \/ /\ Finish(r, 500)
          /\ UNCHANGED browserVars
    /\ UNCHANGED <<dom, closing, ctx, cacheLive>>

\* A browser process dies or its connection drops: isConnected() turns
\* false and the contexts it hosted are gone with it.
BrowserDisconnect(n) ==
    /\ UNCHANGED notServerVars
    /\ browsers[n] = "connected"
    /\ browsers' = [browsers EXCEPT ![n] = "gone"]
    /\ ctx' = [r \in Requests |->
                  IF b[r] = n /\ ctx[r] = "open" THEN "none" ELSE ctx[r]]
    /\ UNCHANGED <<semVars, pc, dom, released, aborted, resp,
                   browser, launched, b, closing, cacheLive>>

\* ------------------------------------------------------------------------
\* scanDomainOnce of the hardened variant (part_003:187-287), as far as the
\* browser, the context and the handler's exit are concerned.  The network
\* events of one scan are modelled in detail further below.
\* ------------------------------------------------------------------------

\* the catch block (part_003:278-279) starts: context.close() is called
EnterCatch(r) ==
    /\ pc' = [pc EXCEPT ![r] = "catch_close"]
    /\ UNCHANGED <<semVars, released, aborted, resp, b>>

\* `await b.newContext()` settles (part_003:190).  It can only succeed on a
\* connected browser; a rejection is thrown before the try block.
NewContextDone(r) ==
    /\ UNCHANGED notServerVars
    /\ pc[r] = "newctx"
    /\ \/ /\ IsConnected(b[r])
          /\ ctx' = [ctx EXCEPT ![r] = "open"]
          /\ pc' = [pc EXCEPT ![r] = "newpage"]
          /\ UNCHANGED <<semVars, released, aborted, resp, b>>
       \/ /\ Finish(r, 500)
          /\ ctx' = ctx
    /\ UNCHANGED <<dom, browserVars, closing, cacheLive>>

\* `await context.newPage()` settles (part_003:191): on success the handlers
\* are attached and page.goto is called; a rejection is thrown before the
\* try block (part_003:244), so neither catch nor finally of the scan runs.
NewPageDone(r) ==
    /\ UNCHANGED notServerVars
    /\ pc[r] = "newpage"
    /\ \/ /\ IsConnected(b[r])
          /\ pc' = [pc EXCEPT ![r] = "goto"]
          /\ UNCHANGED <<semVars, released, aborted, resp, b>>
       \/ Finish(r, 500)
    /\ UNCHANGED <<dom, browserVars, closing, ctx, cacheLive>>

\* after the settle loop (part_003:257-265): visitedUrls is a fresh empty
\* set, so the loop check never throws; the redirect log is too long or not
PostSettle(r) ==
    \/ EnterCatch(r)
    \/ /\ pc' = [pc EXCEPT ![r] = "closing"]
       /\ UNCHANGED <<semVars, released, aborted, resp, b>>

\* One evaluation of the settle loop (part_003:250-255).  Within the
\* deadline: an aborted signal throws, a quiet network breaks out of the
\* loop, anything else sleeps 100 ms.  Past the deadline the loop is left
\* without looking at the signal.
SettleStep(r) ==
    \/ /\ aborted[r]
       /\ EnterCatch(r)
    \/ /\ ~aborted[r]
       /\ pc' = [pc EXCEPT ![r] = "settle"]
       /\ UNCHANGED <<semVars, released, aborted, resp, b>>
    \/ PostSettle(r)

\* `await page.goto()` settles (part_003:246)
GotoDone(r) ==
    /\ UNCHANGED notServerVars
    /\ pc[r] = "goto"
    /\ \/ /\ IsConnected(b[r])
          /\ SettleStep(r)
       \/ EnterCatch(r)
    /\ UNCHANGED <<dom, browserVars, closing, ctx, cacheLive>>

\* the 100 ms sleep of the settle loop is over (part_003:254)
SettlePoll(r) ==
    /\ UNCHANGED notServerVars
    /\ pc[r] = "settle"
    /\ SettleStep(r)
    /\ UNCHANGED <<dom, browserVars, closing, ctx, cacheLive>>

\* `await context.close()` of the success path settles (part_003:265-277).
\* Resolved: the result is returned, the handler caches it and answers 200
\* (part_003:318-327).  Rejected (the browser is gone): the catch block.
CloseDone(r) ==
    /\ UNCHANGED notServerVars
    /\ pc[r] = "closing"
    /\ \/ /\ ctx' = [ctx EXCEPT ![r] = "none"]
          /\ cacheLive' = cacheLive \cup {dom[r]}
          /\ Finish(r, 200)
       \/ /\ ~IsConnected(b[r])
          /\ EnterCatch(r)
          /\ UNCHANGED <<ctx, cacheLive>>
    /\ UNCHANGED <<dom, browserVars, closing>>

\* catch block: `try { await context.close() } catch {}` is over
\* (part_003:279-281); a disconnected `browser` is closed next, or the
\* error is rethrown and the handler answers 500
CatchCloseDone(r) ==
    /\ UNCHANGED notServerVars
    /\ pc[r] = "catch_close"
    /\ ctx' = [ctx EXCEPT ![r] = "none"]
    /\ IF browser # 0 /\ ~IsConnected(browser)
           THEN /\ closing' = [closing EXCEPT ![r] = browser]
                /\ pc' = [pc EXCEPT ![r] = "catch_bclose"]
                /\ UNCHANGED <<semVars, released, aborted, resp, b>>
           ELSE /\ Finish(r, 500)
                /\ closing' = closing
    /\ UNCHANGED <<dom, browserVars, cacheLive>>

\* catch block: `await browser.close(); browser = null` (part_003:281).
\* When close() rejects, the assignment is skipped.
CatchBrowserCloseDone(r) ==
    /\ UNCHANGED notServerVars
    /\ pc[r] = "catch_bclose"
    /\ \/ /\ browsers' = [browsers EXCEPT ![closing[r]] = "gone"]
          /\ browser' = 0
       \/ UNCHANGED <<browser, browsers>>
    /\ closing' = [closing EXCEPT ![r] = 0]
    /\ Finish(r, 500)
    /\ UNCHANGED <<dom, launched, ctx, cacheLive>>

\* a live row passes its ttl_at
Expire(d) ==
    /\ UNCHANGED notServerVars
    /\ d \in cacheLive
    /\ cacheLive' = cacheLive \ {d}
    /\ UNCHANGED <<semVars, pc, dom, released, aborted, resp,
                   browserVars, b, closing, ctx>>

Next ==
    \/ \E r \in Requests : Start(r)
    \/ \E r \in Requests : AfterAcquire(r)
    \/ \E r \in Requests : TimerFire(r)
    \/ \E r \in Requests : EbCloseDone(r)
    \/ \E r \in Requests : EbLaunchDone(r)
    \/ \E n \in 1..NumRequests : BrowserDisconnect(n)
    \/ \E r \in Requests : NewContextDone(r)
    \/ \E r \in Requests : NewPageDone(r)
    \/ \E r \in Requests : GotoDone(r)
    \/ \E r \in Requests : SettlePoll(r)
    \/ \E r \in Requests : CloseDone(r)
    \/ \E r \in Requests : CatchCloseDone(r)
    \/ \E r \in Requests : CatchBrowserCloseDone(r)
    \/ \E d \in Domains : Expire(d)

Init ==
    /\ ServerInit
    /\ CacheInit
    /\ ScanInit
    /\ OrchInit
    /\ RouteInit
    /\ PrecheckInit
    /\ NetworkInit
    /\ SemOrderInit

Spec == Init /\ [][Next]_vars

\* ------------------------------------------------------------------------
\* Properties of the hardened variant
\* ------------------------------------------------------------------------

\* C1: however the requests interleave, the number of requests holding a
\* permit (acquire() resolved, release function not yet called) never
\* exceeds CONCURRENCY, so at most CONCURRENCY scanDomainOnce calls are in
\* progress at any moment.
C1_PermitBound ==
    /\ Cardinality(Holders) <= CONCURRENCY
    /\ Cardinality(Scanning) <= CONCURRENCY

\* C1 witness: CONCURRENCY scans are in progress while another request waits
\* in the semaphore's queue
C1_Witness ==
    /\ Cardinality(Scanning) = CONCURRENCY
    /\ semQueue # <<>>

\* C2: a request that acquired a permit calls its release function exactly
\* once, on every exit path of the handler, and not before it exits; once
\* all requests have finished, active is 0 and the queue is empty.
C2_ReleasedExactlyOnce ==
    /\ \A r \in Requests :
          /\ released[r] <= 1
          /\ (pc[r] = "done" /\ dom[r] # "") => released[r] = 1
          /\ pc[r] # "done" => released[r] = 0
    /\ (\A r \in Requests : pc[r] = "done") =>
          (semActive = 0 /\ semQueue = <<>>)

\* C2 witness: every request acquired a permit and has finished, one with
\* an answer from the try block and one through the catch block, and one of
\* them had to wait in the queue (all of them held a permit, CONCURRENCY at
\* a time)
C2_Witness ==
    /\ \A r \in Requests : pc[r] = "done" /\ released[r] = 1
    /\ \E r \in Requests : resp[r] = 200
    /\ \E r \in Requests : resp[r] = 500
    /\ semActive = 0

\* C3: a scan never returns or throws while the context it created is still
\* open.
C3_NoContextLeak ==
    \A r \in Requests : pc[r] = "done" => ctx[r] # "open"

\* C10: at most one browser that was launched and not closed exists at any
\* time, and a scan that holds a live handle holds the one stored in the
\* module-level variable.
C10_BrowserSingleton ==
    /\ Cardinality(LiveBrowsers) <= 1
    /\ \A r \in Scanning : IsConnected(b[r]) => b[r] = browser

\* ------------------------------------------------------------------------
\* The result cache on its own
\* ------------------------------------------------------------------------

NextCache ==
    \/ \E d \in CacheDomains, res \in CacheResults : PutToCache(d, res)
    \/ \E d \in CacheDomains : Lookup(d)
    \/ Tick

SpecCache == Init /\ [][NextCache]_vars

\* what getFromCache(d) has to return at time t, given the latest
\* putToCache for d
Expected(t, d) ==
    IF d \notin DOMAIN lastPut THEN Miss
    ELSE LET p == lastPut[d]
         IN  IF p.at + CACHE_TTL_SECONDS > t
                 THEN [hit |-> TRUE,
                       relatedDomains |-> p.result.relatedDomains,
                       finalUrl |-> p.result.finalUrl,
                       redirectChain |-> p.result.redirectChain,
                       cached |-> TRUE,
                       cachedAt |-> p.at,
                       ttlAt |-> p.at + CACHE_TTL_SECONDS]
                 ELSE Miss

\* C4: after putToCache(d, r), getFromCache(d) returns r's relatedDomains,
\* finalUrl and redirectChain unchanged, with cached = true, cachedAt and
\* ttlAt, for as long as ttl_at > now; once now >= ttl_at it returns a miss;
\* a later putToCache(d, r2) replaces the row, so that the lookup returns r2.
C4_CacheRoundTrip ==
    \A d \in CacheDomains : GetFromCache(rows, now, d) = Expected(now, d)

\* C4 witness: a getFromCache that returned the two hosts and the one-step
\* chain of a result written after time 0, while the other domain's row has
\* expired
C4_Witness ==
    /\ lookup.out.hit
    /\ lookup.domain \in DOMAIN lastPut
    /\ lastPut[lookup.domain].at > 0
    /\ lookup.out = Expected(now, lookup.domain)
    /\ Len(lookup.out.redirectChain) = 1
    /\ Len(lookup.out.relatedDomains) = 2
    /\ \E d \in DOMAIN rows : ~IsLive(rows[d], now)

\* ------------------------------------------------------------------------
\* One scan of the hardened variant on its own
\* ------------------------------------------------------------------------

NextScanH ==
    \/ \E o \in {HostA} : StartScanH(o)
    \/ \E c \in ChainIds : RequestH(c)
    \/ \E c \in ChainIds : ResponseH(c)
    \/ \E c \in ChainIds : RequestFailedH(c)
    \/ GotoDoneH
    \/ SettlePollH
    \/ ElapseH
    \/ AbortH
    \/ CloseDoneH
    \/ CatchCloseDoneH

SpecScanH == Init /\ [][NextScanH]_vars

\* C8: every returned scan result has len(redirectChain) <= MAX_REDIRECT_STEPS
\* and every step's status in [300, 400).
C8_ChainWithinMaxSteps ==
    sPc = "returned" =>
        /\ Len(scanResult.redirectChain) <= MAX_REDIRECT_STEPS
        /\ \A i \in 1..Len(scanResult.redirectChain) :
              /\ scanResult.redirectChain[i].status >= 300
              /\ scanResult.redirectChain[i].status < 400

\* the parts of C8 the code keeps: statuses are redirect statuses, and a log
\* that is too long when the loop is left never becomes a result
C8_StatusesAreRedirects ==
    sPc = "returned" =>
        \A i \in 1..Len(scanResult.redirectChain) :
            /\ scanResult.redirectChain[i].status >= 300
            /\ scanResult.redirectChain[i].status < 400

C8_TooLongAtCheckThrows ==
    [][(sPc \in {"goto", "settle"} /\ sPc' = "closing")
          => (Len(redirectLog') <= MAX_REDIRECT_STEPS)]_vars

\* ------------------------------------------------------------------------
\* One request to the orchestrator on its own
\* ------------------------------------------------------------------------

NextScanO ==
    \/ \E o \in OrchOrigins : StartO(o)
    \/ \E p \in PrecheckOutcomes(StartUrl(origin)) : PrecheckDoneO(p)
    \/ LaunchDoneO
    \/ \E c \in ChainIds : RequestO(c)
    \/ \E c \in ChainIds : ResponseO(c)
    \/ GotoDoneO
    \/ QuietPollO
    \/ ElapseO
    \/ CloseDoneO
    \/ CatchCloseDoneO
    \/ HardTimeoutO

SpecScanO == Init /\ [][NextScanO]_vars

\* the scan went through the browser and succeeded: scanDomainOnce returned
\* what scanWithBrowser produced
BrowserScanSucceeded ==
    sPc = "done" /\ scanResult.ok /\ scanResult.precheck = NoReason

\* C5: in every successful browser scan result returned by scanDomainOnce
\* the origin hostname is an element of relatedDomains, and relatedDomains
\* is strictly ascending.
C5_OriginPresentAndAscending ==
    BrowserScanSucceeded =>
        LET l == scanResult.relatedDomains
        IN  /\ \E i \in 1..Len(l) : l[i] = origin
            /\ \A i \in 1..(Len(l) - 1) : LexLess(l[i], l[i + 1])

\* the part of C5 the code keeps: the origin is in the list
C5_OriginPresent ==
    BrowserScanSucceeded =>
        \E i \in 1..Len(scanResult.relatedDomains) :
            scanResult.relatedDomains[i] = origin

\* the hostname contains 'doubleclick' or 'google'
NamesTracker(d) == Includes(d, StrDoubleclick) \/ Includes(d, StrGoogle)

\* the relatedDomains the client got, and those in the cache
SentDomains ==
    IF response.sent /\ response.code = 200 THEN response.relatedDomains
    ELSE <<>>
CachedDomains(d) == JsonParse(rows[d].result_json).val

\* C6 as stated: no element of relatedDomains in any scan result, returned
\* to the client or written to the cache, contains 'doubleclick' or
\* 'google'.
C6_NoTrackerInRelatedDomains ==
    /\ \A i \in 1..Len(SentDomains) : ~NamesTracker(SentDomains[i])
    /\ \A d \in DOMAIN rows :
          \A i \in 1..Len(CachedDomains(d)) : ~NamesTracker(CachedDomains(d)[i])

\* C6 amended: no element of relatedDomains other than the requested
\* domain itself, in any scan result returned to the client or written to
\* the cache, contains 'doubleclick' or 'google'.
C6_NoTrackerButOrigin ==
    /\ \A i \in 1..Len(SentDomains) :
          SentDomains[i] = origin \/ ~NamesTracker(SentDomains[i])
    /\ \A d \in DOMAIN rows :
          \A i \in 1..Len(CachedDomains(d)) :
              CachedDomains(d)[i] = d \/ ~NamesTracker(CachedDomains(d)[i])

\* a browser scan of z.com that saw google.com and ad.doubleclick.net
\* answered and cached b.com and z.com only
C6_Witness ==
    /\ BrowserScanSucceeded
    /\ origin = HostZ
    /\ {HostGoogle, HostAds} \subseteq seenDomains
    /\ SentDomains = <<HostB, HostZ>>
    /\ origin \in DOMAIN rows
    /\ CachedDomains(origin) = <<HostB, HostZ>>

\* C7: in every successful result of scanWithBrowser the redirectChain is
\* connected (chain[i].to = chain[i+1].from) and no (from, to) pair occurs
\* more than once.
C7_ChainConnectedNoRepeats ==
    BrowserScanSucceeded =>
        LET c == scanResult.redirectChain
        IN  /\ \A i \in 1..(Len(c) - 1) : c[i].to = c[i + 1].from
            /\ \A i, j \in 1..Len(c) :
                  (c[i].from = c[j].from /\ c[i].to = c[j].to) => i = j

\* C9: when the document navigation of a successful scan went through
\* k >= 1 redirects u0 -> ... -> uk, the first step of redirectChain has
\* from = u0 and the last step has to = uk.
C9_ChainCoversNavigation ==
    (sPc = "returned" /\ DocLoaded /\ Len(chUrls["doc"]) >= 2) =>
        LET c == scanResult.redirectChain
            u == chUrls["doc"]
        IN  /\ c # <<>>
            /\ c[1].from = u[1]
            /\ c[Len(c)].to = u[Len(u)]

\* C11: at most one response is ever written for a request, and after the
\* 504 of the hard timeout no later step of the handler writes or attempts
\* to write another one: res.status().json() is called at most once.
C11_AtMostOneWrite == Len(writes) <= 1

\* the part of C11 the code keeps: the client gets the first body written,
\* and the 504 is written only when nothing has been sent
C11_FirstWriteIsTheResponse ==
    /\ response.sent <=> writes # <<>>
    /\ response.sent => response = writes[1]
    /\ \A i \in 2..Len(writes) : writes[i].code # 504

\* C12: a request that was answered 504 by the hard timeout never writes
\* its domain to the cache.
C12_NoCacheWriteAfterTimeout ==
    (response.sent /\ response.code = 504) => origin \notin DOMAIN rows

\* C13: when the per-request timer fires while the scan is in progress the
\* operation is aborted as a consequence: from then on the request only
\* moves into the catch block (which closes the context) and to the release
\* of its permit with an error, never on along the normal path.
C13_ExpiryAbortsScan ==
    [][\A r \in Requests :
          (aborted[r] /\ pc[r] \in ScanPcs /\ pc'[r] # pc[r])
              => \/ pc'[r] \in {"catch_close", "catch_bclose"}
                 \/ (pc'[r] = "done" /\ resp'[r] # 200)]_vars

\* the request is over: scanDomainOnce has returned and the handler has
\* called res.json
Answered == sPc = "done"

\* scanDomainOnce went past the precheck into scanWithBrowser
\* (part_002:323-340)
BrowserScanStarted == targetUrl # NoUrl

\* scanWithBrowser threw and scanDomainOnce returned its fallback
\* (part_002:345-348)
BrowserScanFailed ==
    Answered /\ BrowserScanStarted /\ scanResult.precheck # NoReason

\* C14: whenever the browser scan fails, whatever the precheck
\* classification that led to it, the 200 answer is origin-only
\* (relatedDomains = [domain], redirectChain = []) with status "blocked"
\* and reason equal to the precheck tag, or "blocked" without a tag.
C14_ScanFailureAnswersBlocked ==
    (BrowserScanFailed /\ response.code = 200)
        => /\ response.relatedDomains = <<origin>>
           /\ response.redirectChain = <<>>
           /\ response.status = "blocked"
           /\ response.reason = IF pre.reason = NoReason
                                    THEN Reason("blocked", NoUrl)
                                    ELSE pre.reason

\* the body the handler passed to res.status(200).json (part_002:429,
\* 440, 453)
HandlerAnswer ==
    LET i == CHOOSE i \in 1..Len(writes) : writes[i].code = 200
    IN  writes[i]

\* the precheck classified the target as attachment or non-HTML
PrecheckSaysNotHtml == pre.reason.tag \in {"attachment", "non-HTML"}

C16_RedirectToFileSkipsBrowser ==
    (Answered /\ pre.reason.tag = "redirect-to-file")
        => /\ ~BrowserScanStarted
           /\ HandlerAnswer.status = "skipped"
           /\ HandlerAnswer.reason = pre.reason
           /\ HandlerAnswer.finalUrl = pre.finalUrl

\* the precheck returned redirect-loop or redirect-loop(N)
PrecheckSaysLoop == pre.reason.tag \in {"redirect-loop", "redirect-loop(N)"}

\* C17: when the precheck returns redirect-loop or redirect-loop(N) a
\* browser scan is started if and only if tryBrowser is true; without the
\* HTML hint the answer is status "skipped" with reason = the tag.
C17_LoopScansIffHtmlHint ==
    (Answered /\ PrecheckSaysLoop)
        => /\ BrowserScanStarted <=> pre.tryBrowser
           /\ ~pre.tryBrowser => /\ HandlerAnswer.status = "skipped"
                                 /\ HandlerAnswer.reason = pre.reason

\* C18: when the precheck returns marketing-redirect(<target>) the browser
\* scan runs against <target>, and when it succeeds the answer has status
\* "ok", carries the scan's finalUrl, relatedDomains and redirectChain, and
\* has note = "marketing-redirect(<target>)".
C18_MarketingRedirectNote ==
    (pre.reason.tag = "marketing-redirect" /\ sPc # "precheck")
        => /\ targetUrl = pre.finalUrl
           /\ BrowserScanSucceeded
                  => /\ HandlerAnswer.status = "ok"
                     /\ HandlerAnswer.finalUrl = scanResult.finalUrl
                     /\ HandlerAnswer.relatedDomains = scanResult.relatedDomains
                     /\ HandlerAnswer.redirectChain = scanResult.redirectChain
                     /\ HandlerAnswer.note = pre.reason

C19_SuccessReached ==
    /\ BrowserScanSucceeded
    /\ pre.reason.tag = "forbidden"
    /\ response.code = 200
    /\ origin \in DOMAIN rows

NextRoute ==
    \/ \E r \in Routes : InterceptR(r)
    \/ \E r \in Routes : FetchDoneR(r)

SpecRoute == Init /\ [][NextRoute]_vars

\* the calls on route r that resolve it
Resolutions(r) ==
    { i \in 1..Len(routeCalls[r]) :
          routeCalls[r][i].op \in {"fulfill", "continue"} }

\* C20: the limiter resolves every intercepted request exactly once.  A
\* request that is a navigation request of resource type 'document' is
\* re-issued with maxRedirects = MAX_REDIRECT_STEPS and then fulfilled, with
\* the fetched response or with 508, and never continued; every other
\* request is continued and nothing else: not fetched, not fulfilled,
\* whatever the number of redirects behind it.
C20_RouteResolvedOnce ==
    \A r \in Routes :
        /\ Cardinality(Resolutions(r)) = IF routePc[r] = "done" THEN 1 ELSE 0
        /\ routePc[r] = "done" =>
             IF routeReq[r].resourceType = "document" /\ routeReq[r].isNav
                 THEN /\ Len(routeCalls[r]) = 2
                      /\ routeCalls[r][1] = FetchCall(MAX_REDIRECT_STEPS_O)
                      /\ routeCalls[r][2].op = "fulfill"
                      /\ routeCalls[r][2].arg \in FetchStatuses \cup {508}
                      /\ routeReq[r].hops > MAX_REDIRECT_STEPS_O
                             => routeCalls[r][2].arg = 508
                 ELSE routeCalls[r] = <<ContinueCall>>

\* a document navigation behind too many redirects was fulfilled with 508
\* and a document request that is no navigation was continued
C20_Witness ==
    \E r, q \in Routes :
        /\ routePc[r] = "done"
        /\ routeReq[r].resourceType = "document" /\ routeReq[r].isNav
        /\ routeReq[r].hops > MAX_REDIRECT_STEPS_O
        /\ routeCalls[r][2] = FulfillCall(508)
        /\ routePc[q] = "done"
        /\ routeReq[q].resourceType = "document" /\ ~routeReq[q].isNav
        /\ routeReq[q].hops > MAX_REDIRECT_STEPS_O
        /\ routeCalls[q] = <<ContinueCall>>

\* C21: the 508 sentinel means "document redirect limit exceeded" and
\* nothing else: the limiter fulfils a route with status 508 only when the
\* re-issued request met more than MAX_REDIRECT_STEPS redirects, not on
\* another failure of the fetch.
C21_SentinelMeansTooManyRedirects ==
    \A r \in Routes :
        (\E i \in 1..Len(routeCalls[r]) : routeCalls[r][i] = FulfillCall(508))
            => routeReq[r].hops > MAX_REDIRECT_STEPS_O

\* ------------------------------------------------------------------------
\* getFromCache of the hardened variant on a table whose file was changed
\* from outside (part_003:124-139, 302-329)
\* ------------------------------------------------------------------------

\* JSON.parse threw a SyntaxError inside getFromCache
Threw == [hit |-> FALSE, threw |-> TRUE]

\* a JSON text cut short: its last token is missing
Truncated(toks) == SubSeq(toks, 1, Len(toks) - 1)

\* both JSON columns of a row parse
RowParses(row) ==
    /\ JsonParse(row.result_json).ok
    /\ row.redirect_chain_json # <<>> => JsonParse(row.redirect_chain_json).ok

\* getFromCache(d) at time t (part_003:124-139): null, the cached result,
\* or the SyntaxError of JSON.parse, which nothing in the function catches
GetFromCacheH(tbl, t, d) ==
    IF d \notin DOMAIN tbl THEN Miss
    ELSE IF ~IsLive(tbl[d], t) THEN Miss
    ELSE IF ~RowParses(tbl[d]) THEN Threw
    ELSE GetFromCache(tbl, t, d)

\* what the handler does with the outcome of getFromCache (part_003:302-329):
\* 200 from the cache, 500 from its catch block, 0 when it goes on to scan
HandlerStatusH(out) ==
    IF out = Threw THEN 500 ELSE IF out.hit THEN 200 ELSE 0

\* the handler calls getFromCache(d)
LookupH(d) ==
    /\ lookup' = [domain |-> d, out |-> GetFromCacheH(rows, now, d)]
    /\ UNCHANGED <<rows, now, lastPut>>
    /\ UNCHANGED notCacheVars

\* the database file is damaged or edited outside the program: a JSON
\* column of the row of d loses its end
CorruptRow(d) ==
    /\ d \in DOMAIN rows
    /\ RowParses(rows[d])
    /\ \/ rows' = [rows EXCEPT ![d].result_json = Truncated(@)]
       \/ rows' = [rows EXCEPT ![d].redirect_chain_json = Truncated(@)]
    /\ UNCHANGED <<now, lastPut, lookup>>
    /\ UNCHANGED notCacheVars

NextCacheH ==
    \/ \E d \in CacheDomains, res \in CacheResults : PutToCache(d, res)
    \/ \E d \in CacheDomains : CorruptRow(d)
    \/ \E d \in CacheDomains : LookupH(d)
    \/ Tick

SpecCacheH == Init /\ [][NextCacheH]_vars

\* C22: getFromCache on a live row whose result_json or redirect_chain_json
\* cannot be parsed returns a miss without raising, so that the request
\* goes on to the scan and gets no error response.
C22_CorruptRowIsMiss ==
    \A d \in CacheDomains :
        (d \in DOMAIN rows /\ IsLive(rows[d], now) /\ ~RowParses(rows[d]))
            => /\ GetFromCacheH(rows, now, d) = Miss
               /\ HandlerStatusH(GetFromCacheH(rows, now, d)) = 0

\* C23: the cache is written only as the consequence of a successful
\* browser scan on a cache miss: a request answered skipped or blocked, with
\* a precheck note or with an error response leaves the table as it was,
\* and the upsert touches the row of the requested domain alone.
C23_CacheWrittenOnlyWithOkAnswer ==
    /\ DOMAIN rows \subseteq {origin}
    /\ rows # <<>> => /\ BrowserScanSucceeded
                      /\ response = ScanBody(scanResult)

\* the same without the requests the hard timer answered first
C23_CacheWrittenOnlyAfterScan ==
    /\ DOMAIN rows \subseteq {origin}
    /\ rows # <<>> => /\ BrowserScanSucceeded
                      /\ HandlerAnswer = ScanBody(scanResult)
    /\ (Answered /\ ~BrowserScanSucceeded) => rows = <<>>

NextPrecheck ==
    \/ StartP
    \/ FetchDoneP
    \/ ProbeDoneP

SpecPrecheck == Init /\ [][NextPrecheck]_vars

\* the tags precheckFollowManually classifies with ("" : reason null)
PrecheckTags ==
    {"", "forbidden", "redirect-loop", "redirect-loop(N)", "redirect-to-file",
     "marketing-redirect", "attachment", "non-HTML"}

\* some answer to a walk fetch had a text/html content type
HintSeen == \E j \in 1..Len(pFetched) : pFetched[j].html

\* C24: precheckFollowManually always ends with a classification, whatever
\* the servers answer.
C24_EndsWithClassification ==
    pPc = "done" => pResult.reason.tag \in PrecheckTags

\* the bounds of the walk: at most PRECHECK_MAX_REDIRECTS walk fetches, at
\* most one probe after each, and redirect-loop(N) with tryBrowser = (an
\* HTML hint was seen) when the hops are used up
C24_WalkIsBounded ==
    /\ Len(pFetched) <= PRECHECK_MAX_REDIRECTS
    /\ pProbes <= 1
    /\ pI <= PRECHECK_MAX_REDIRECTS
    /\ (pPc = "done" /\ pI = PRECHECK_MAX_REDIRECTS)
           => pResult = PreResult(TRUE, Reason("redirect-loop(N)", NoUrl),
                                  HintSeen, NoUrl)

\* a url without its fragment
WithoutHash(u) == HashUrl(u.host, u.path, "")

\* the urls the walk has fetched, fragments stripped
FetchedUrls == { WithoutHash(pFetched[j].url) : j \in 1..Len(pFetched) }

\* the walk ended at the top of an iteration that had hops left, without
\* fetching the url in hand
StoppedBeforeFetch ==
    pPc = "done" /\ Len(pFetched) = pI /\ pI < PRECHECK_MAX_REDIRECTS

\* C25: the walk fetches no url twice, fragments stripped; it returns
\* redirect-loop exactly when the url it is about to fetch equals, after
\* stripping the fragment, a url it has visited, and then tryBrowser says
\* whether an HTML hint was seen.
C25_NoUrlFetchedTwice ==
    /\ \A j, k \in 1..Len(pFetched) :
           j # k => WithoutHash(pFetched[j].url) # WithoutHash(pFetched[k].url)
    /\ pPc = "done" =>
           /\ pResult.reason.tag = "redirect-loop"
                  <=> (StoppedBeforeFetch /\ WithoutHash(pUrl) \in FetchedUrls)
           /\ pResult.reason.tag = "redirect-loop"
                  => pResult = PreResult(TRUE, Reason("redirect-loop", NoUrl),
                                         HintSeen, NoUrl)

\* the cycle a -> b -> a#f was classified redirect-loop without HTML hint
C25_Witness ==
    /\ pPc = "done"
    /\ pResult.reason.tag = "redirect-loop"
    /\ ~pResult.tryBrowser
    /\ Len(pFetched) = 2
    /\ pFetched[1].url = HashUrl(HostA, "/", "")
    /\ pFetched[2].url = HashUrl(HostB, "/", "")
    /\ pUrl = HashUrl(HostA, "/", "#f")

\* C26: when a hop fetched by the walk answers with Content-Disposition:
\* attachment, whatever its status and also with a Location header, the
\* walk stops there and the classification is attachment (skip = true,
\* tryBrowser = false).
C26_AttachmentAlwaysWins ==
    \A j \in 1..Len(pFetched) :
        pFetched[j].attachment
            => /\ j = Len(pFetched)
               /\ pPc = "done"
               /\ pResult.reason.tag = "attachment"
               /\ pResult.skip
               /\ ~pResult.tryBrowser

\* the same for the hops that are neither 403 nor a redirect with Location
C26_AttachmentOnFinalHop ==
    (pPc = "done" /\ pResult.reason.tag \in {"", "non-HTML"}
                  /\ pResult.finalUrl # NoUrl)
        => ~pFetched[Len(pFetched)].attachment

\* the sleep of the settle loop always ends (part_003:254)
SpecScanHFair == SpecScanH /\ WF_vars(SettlePollH)

\* the settle loop is left at a poll before NAV_TIMEOUT_MS has passed
EarlyExit == sPc = "settle" /\ sPc' # "settle" /\ waited' < NAV_TIMEOUT_MS

\* at that poll no request is open and the network has been quiet for
\* QUIET_WINDOW_MS
QuietAtPoll == inflight' = 0 /\ sinceChange' >= QUIET_WINDOW_MS

\* the loop is never awaited past its deadline, and it always ends
SettleLoopEnds ==
    /\ [](sPc = "settle" => waited < NAV_TIMEOUT_MS)
    /\ [][sPc = "settle" /\ sPc' = "settle" => waited' >= waited]_vars
    /\ (sPc = "settle" ~> sPc # "settle")

C27_DeadlineReached ==
    /\ sPc = "closing"
    /\ waited = NAV_TIMEOUT_MS
    /\ inflight > 0

\* the requests the page has issued that have neither been answered nor
\* failed; a chain has at most one such request
OpenRequests == Cardinality({ c \in ChainIds : Unanswered(c) })

\* C28: at every point of a scan inflight is >= 0 and equals the number of
\* open requests, those seen by the request handler that have not finished
\* yet; once every request has finished inflight is 0.
C28_InflightCountsOpenRequests ==
    sPc \in LivePcs => (inflight >= 0 /\ inflight = OpenRequests)

\* the same while no request has failed
C28_InflightCountsUnansweredRequests ==
    (sPc \in LivePcs /\ \A c \in ChainIds : ~chFailed[c])
        => (inflight >= 0 /\ inflight = OpenRequests)

\* every request has finished, one of them by failing, and the loop ran to
\* its deadline with inflight still positive
C28_FailedRequestHoldsLoop ==
    /\ sPc = "closing"
    /\ OpenRequests = 0
    /\ inflight > 0
    /\ waited = NAV_TIMEOUT_MS

NextSem ==
    \/ \E r \in Callers : AcquireS(r)
    \/ \E r \in Callers : ReleaseS(r)

\* the callers of the semaphore alone; every holder of a permit eventually
\* calls its release function
SpecSem == Init /\ [][NextSem]_vars /\ \A r \in Callers : WF_vars(ReleaseS(r))

\* C29: the Semaphore has no lost wake-ups: when every holder eventually
\* releases, every caller of acquire() eventually obtains a permit; queued
\* callers are admitted in the order they queued; and always
\* 0 <= active <= limit, with a non-empty queue only while active = limit.
C29_NoLostWakeup ==
    /\ [](/\ semActive >= 0
          /\ semActive <= CONCURRENCY
          /\ semActive = Cardinality({ r \in Callers : semCaller[r] = "acquired" })
          /\ semQueue # <<>> => semActive = CONCURRENCY
          /\ Len(semAdmitted) <= Len(semQueued)
          /\ semAdmitted = SubSeq(semQueued, 1, Len(semAdmitted))
          /\ semQueue = SubSeq(semQueued, Len(semAdmitted) + 1, Len(semQueued))
          /\ \A r \in Callers :
                 semCaller[r] = "queued" <=> \E k \in 1..Len(semQueue) : semQueue[k] = r)
    /\ \A r \in Callers : (semCaller[r] = "queued" ~> semCaller[r] = "acquired")

\* two callers waited while the permits were taken and both were admitted,
\* first the one that queued first
C29_Witness ==
    /\ Len(semQueued) >= 2
    /\ semAdmitted = semQueued
    /\ semQueued[1] > semQueued[2]

\* C30: the teardown in a failing scan's catch block never sets the
\* module-level handle to null while it refers to a connected browser, for
\* any interleaving with the ensureBrowser() calls of other scans.
C30_TeardownSparesHealthyPool ==
    [][(browser # 0 /\ browser' = 0) => ~IsConnected(browser)]_vars

NextChainH ==
    \/ \E o \in {HostA} : StartScanH(o)
    \/ \E c \in ChainIds : RequestH(c)
    \/ \E c \in ChainIds : ResponseMixedH(c)

\* the requests and responses of one hardened scan while page.goto() is
\* pending, with redirects of differing status
SpecChainH == Init /\ [][NextChainH]_vars

\* C31: every step {from, to, status} of the redirect log carries the
\* status of the 3xx response that was returned for the request to `from`,
\* the response that caused the hop from -> to.
C31_StepCarriesStatusOfItsHop ==
    \A k \in 1..Len(redirectLog) :
        \E c \in ChainIds : \E i \in 1..Len(chStatus[c]) :
            /\ i < Len(chUrls[c])
            /\ chUrls[c][i] = redirectLog[k].from
            /\ chUrls[c][i + 1] = redirectLog[k].to
            /\ chStatus[c][i] = redirectLog[k].status

\* the number of 3xx responses the document navigation has received: every
\* request after the first was caused by one, and so is a pending Location
DocRedirects ==
    IF chNext["doc"] # NoUrl THEN Len(chUrls["doc"])
    ELSE Max(0, Len(chUrls["doc"]) - 1)

\* C32: in scanWithBrowser the check `redirectLog.length > MAX_REDIRECT_STEPS`
\* after the quiet wait fails a scan only if the document navigation went
\* through more than MAX_REDIRECT_STEPS redirects.
C32_TooManyOnlyAboveLimit ==
    [][(sPc = "settle" /\ sPc' = "catch_close")
           => DocRedirects > MAX_REDIRECT_STEPS_O]_vars

====
